---- MODULE Spec2Model ----
(***************************************************************************)
(* A model of go-li/mapast: the flat key-value syntax tree                 *)
(* (map[uint64][]byte), the node tag encoding (Which and the *Node         *)
(* constructors), the address function O and the unparsing engine Code.    *)
(*                                                                         *)
(* Representation.                                                         *)
(*   uint64 address : a tuple of four 16-bit limbs, least significant      *)
(*                    first; all address arithmetic wraps modulo 2^64.     *)
(*   loop index i   : an integer; the sentinel uint64big = 2^64-2 is kept  *)
(*                    as its residue -2, so O(n)+i is exact modulo 2^64.   *)
(*   []byte value   : NilSlice, or a record [ptr, len, cap, data]; ptr  *)
(*                    is the address of element 0 (<<buffer, offset>>),    *)
(*                    data the text of a heap-allocated string.            *)
(*   print callback : the sequence of the strings handed to print, in      *)
(*                    order; "" is the line break.                         *)
(***************************************************************************)
EXTENDS Integers, Sequences, FiniteSets, TLC

----------------------------------------------------------------------------
(* 64-bit unsigned arithmetic on four 16-bit limbs *)

W == 65536

Pow2(n) == <<1, 2, 4, 8, 16, 32, 64, 128, 256, 512, 1024, 2048, 4096, 8192,
             16384, 32768, 65536>>[n + 1]

Limb(v, k) == IF k >= 1 /\ k <= 4 THEN v[k] ELSE 0

\* F applied to the value of e: an operand is evaluated once, as in the source
With(e, F(_)) == CHOOSE r \in {F(x) : x \in {e}} : TRUE

\* a + b mod 2^64
Sum64(a, b) ==
    LET s1 == a[1] + b[1]
        s2 == a[2] + b[2] + (s1 \div W)
        s3 == a[3] + b[3] + (s2 \div W)
        s4 == a[4] + b[4] + (s3 \div W)
    IN  <<s1 % W, s2 % W, s3 % W, s4 % W>>

Add64(a, b) == With(a, LAMBDA x : Sum64(x, b))

\* the uint64 whose residue modulo 2^64 is the (small, possibly negative) integer k
U64(k) == IF k >= 0 THEN <<k % W, (k \div W) % W, 0, 0>>
          ELSE <<W + k, W - 1, W - 1, W - 1>>

\* the product of two limbs as <<low limb, high limb>>, no intermediate above 2^25
Mul16(a, b) ==
    LET p == a * (b % 256)
        q == a * (b \div 256)
        s == p + 256 * (q % 256)
    IN  <<s % W, (s \div W) + (q \div 256)>>

\* a product that drops the carry of each limb product
Product64NoCarry(a, c) ==
    LET lo(i, j) == Mul16(a[i], c[j])[1]
        hi(i, j) == 0
        t1 == lo(1, 1)
        t2 == lo(1, 2) + lo(2, 1) + hi(1, 1) + (t1 \div W)
        t3 == lo(1, 3) + lo(2, 2) + lo(3, 1) + hi(1, 2) + hi(2, 1) + (t2 \div W)
        t4 == lo(1, 4) + lo(2, 3) + lo(3, 2) + lo(4, 1)
              + hi(1, 3) + hi(2, 2) + hi(3, 1) + (t3 \div W)
    IN  <<t1 % W, t2 % W, t3 % W, t4 % W>>
\* a * c mod 2^64
Product64(a, c) ==
    LET lo(i, j) == Mul16(a[i], c[j])[1]
        hi(i, j) == Mul16(a[i], c[j])[2]
        t1 == lo(1, 1)
        t2 == lo(1, 2) + lo(2, 1) + hi(1, 1) + (t1 \div W)
        t3 == lo(1, 3) + lo(2, 2) + lo(3, 1) + hi(1, 2) + hi(2, 1) + (t2 \div W)
        t4 == lo(1, 4) + lo(2, 3) + lo(3, 2) + lo(4, 1)
              + hi(1, 3) + hi(2, 2) + hi(3, 1) + (t3 \div W)
    IN  <<t1 % W, t2 % W, t3 % W, t4 % W>>

Mul64(a, c) == With(a, LAMBDA x : Product64(x, c))

\* bitwise exclusive or of two n-bit numbers
RECURSIVE XorBits(_, _, _)
XorBits(a, b, n) ==
    IF n = 0 THEN 0
    ELSE ((a + b) % 2) + 2 * XorBits(a \div 2, b \div 2, n - 1)

\* bitwise exclusive or of two limbs, four bits at a time
XorLimb(a, b) ==
    XorBits(a % 16, b % 16, 4)
    + 16 * XorBits((a \div 16) % 16, (b \div 16) % 16, 4)
    + 256 * XorBits((a \div 256) % 16, (b \div 256) % 16, 4)
    + 4096 * XorBits((a \div 4096) % 16, (b \div 4096) % 16, 4)

Xor64(a, b) == <<XorLimb(a[1], b[1]), XorLimb(a[2], b[2]),
                 XorLimb(a[3], b[3]), XorLimb(a[4], b[4])>>

\* v >> s and v << s on 64 bits, 0 <= s < 64
Shr64(v, s) ==
    LET q == s \div 16
        r == s % 16
        limb(k) == (Limb(v, k + q) \div Pow2(r))
                   + (Limb(v, k + q + 1) % Pow2(r)) * Pow2(16 - r)
    IN  <<limb(1), limb(2), limb(3), limb(4)>>

Shl64(v, s) ==
    LET q == s \div 16
        r == s % 16
        limb(k) == (Limb(v, k - q) % Pow2(16 - r)) * Pow2(r)
                   + (Limb(v, k - q - 1) \div Pow2(16 - r))
    IN  <<limb(1), limb(2), limb(3), limb(4)>>

----------------------------------------------------------------------------
(* The address function *)

\* 3935559000370003845, 2691343689449507681 and 4768777513237032717 in limbs
OMul1 == <<16261, 12709, 59919, 13981>>
OAdd1 == <<35681, 33312, 37587, 9561>>
OMul2 == <<12045, 55645, 6625, 16942>>

\* v = v >> s, which forgets the low s bits
XorShrLossy(v, s) == With(v, LAMBDA x : Shr64(x, s))
\* v ^= v >> s and v ^= v << s
XorShr(v, s) == With(v, LAMBDA x : Xor64(x, Shr64(x, s)))
XorShl(v, s) == With(v, LAMBDA x : Xor64(x, Shl64(x, s)))

\* the statements of O, innermost first
O(n) ==
    XorShl(XorShr(XorShl(Mul64(XorShr(XorShl(XorShr(Add64(Mul64(n, OMul1), OAdd1),
        21), 37), 4), OMul2), 20), 41), 5)

\* The keys a tree of depth MaxDepth with at most MaxKids+1 children per
\* node can occupy.
MaxDepth == 3
MaxKids == 5

Zero == <<0, 0, 0, 0>>

RECURSIVE KeysAtDepth(_)
KeysAtDepth(d) ==
    IF d = 0 THEN {Zero}
    ELSE {Add64(O(a), U64(i)) : a \in KeysAtDepth(d - 1), i \in 0..MaxKids}

TreeKeys == UNION {KeysAtDepth(d) : d \in 0..MaxDepth}

----------------------------------------------------------------------------
(* State *)

VARIABLES
    ast,      \* the flat store: a function from the populated keys to []byte values
    litcap,   \* cap([]byte("RootMatter")): the capacity the build gives a converted literal
    made,     \* the last constructor call: its name, arguments and result
    pc,       \* "build" while the store is populated, "done" after Code has run
    puts,     \* the number of single writes made after the tree was planted
    trace,    \* what Code did: its calls, the strings it printed and its loop passes, in order
    otab,     \* O tabulated once: O is pure, so a value is looked up, not computed again
    file,        \* LookupComments: the bytes scanned
    pos,         \* LookupComments: the loop index i
    whitespace,  \* LookupComments: no byte above ' ' since the last line break
    cleanline,   \* LookupComments: a line without a byte above ' ' has ended
    sawender,    \* LookupComments: the line has a marker in EnderSepar[0]
    EnderSepar   \* LookupComments: the end-of-line set and the separate set of keys

codevars == <<ast, litcap, made, pc, puts, trace, otab>>

scanvars == <<file, pos, whitespace, cleanline, sawender, EnderSepar>>

vars == <<ast, litcap, made, pc, puts, trace, otab,
          file, pos, whitespace, cleanline, sawender, EnderSepar>>

\* O(n), from the table where it holds n
OAt(n) == With(n, LAMBDA x : IF x \in DOMAIN otab THEN otab[x] ELSE O(x))

----------------------------------------------------------------------------
(* []byte values and the node families *)

MaxSubnodes == 1000000

NilSlice == [ptr |-> <<"nil", 0>>, len |-> 0, cap |-> 0, data |-> ""]

\* a freshly allocated slice holding the bytes of s: []byte(s)
Bytes(s) == [ptr |-> <<"heap", 0>>, len |-> Len(s), cap |-> Len(s), data |-> s]

\* var X = []byte("XXXXXXXXXX"): ten bytes, capacity chosen by the build
Literal(name) == [ptr |-> <<name, 0>>, len |-> 10, cap |-> litcap, data |-> ""]

\* var X = storage[off:]
Storage(off) == [ptr |-> <<"storage", off>>, len |-> MaxSubnodes - off,
                 cap |-> MaxSubnodes - off, data |-> ""]

RootMatter == Literal("RootMatter")
FileMatter == Literal("FileMatter")
PackageDef == Literal("PackageDef")
ImportStmt == Literal("ImportStmt")
ImportsDef == Literal("ImportsDef")
TypedIdent == Literal("TypedIdent")
RootOfType == Literal("RootOfType")
TypDefStmt == Literal("TypDefStmt")
StructType == Literal("StructType")
BranchStmt == Literal("BranchStmt")
GoDferStmt == Literal("GoDferStmt")
ReturnStmt == Literal("ReturnStmt")
IncDecStmt == Literal("IncDecStmt")
VarDefStmt == Literal("VarDefStmt")
LblGotoCnt == Literal("LblGotoCnt")
IfceTypExp == Literal("IfceTypExp")
CommentRow == Literal("CommentRow")
Expression == Storage(0)
BlocOfCode == Storage(16)
ToplevFunc == Storage(32)
AssignStmt == Storage(48)
ClosureExp == Storage(64)
IfceMethod == Storage(80)

\* the full slice expression v[:high:high], which clips the capacity to the length
Slice2Clipped(v, high) == [v EXCEPT !.len = high, !.cap = high]
\* v[:high] keeps the capacity of v
Slice2(v, high) == [v EXCEPT !.len = high]

\* the simple slice expression v[:high], which ignores max
Slice3Unclipped(v, high, max) == [v EXCEPT !.len = high]
\* v[:high:max] sets the capacity to max
Slice3(v, high, max) == [v EXCEPT !.len = high, !.cap = max]

BlocOfCodePlain == 0
BlocOfCodeIf == 1
BlocOfCodeIfElse == 2
BlocOfCodeSwitch == 3
BlocOfCodeFor == 4
BlocOfCodeForRange == 5
BlocOfCodeTypeSwitch == 6
BlocOfCodeSelect == 7
BlocOfCodeCase == 8
BlocOfCodeDefault == 9
BlocOfCodeNone == 10
BlocOfCodeCommunicate == 11
BlocOfCodeCommunicateDefault == 12
BlocOfCodeTotalCount == 13

BranchStmtSemi == 0
BranchStmtBreak == 1
BranchStmtContinue == 2
BranchStmtFallthrough == 3
BranchStmtGoto == 4

GoDferStmtGo == 0
GoDferStmtDefer == 1

ExpressionBrackets == 0
ExpressionOrOr == 1
ExpressionAndAnd == 2
ExpressionEqual == 3
ExpressionNotEq == 4
ExpressionLessThan == 5
ExpressionLessEq == 6
ExpressionGrtEq == 7
ExpressionGrtThan == 8
ExpressionPlus == 9
ExpressionMinus == 10
ExpressionOr == 11
ExpressionXor == 12
ExpressionMul == 13
ExpressionDiv == 14
ExpressionMod == 15
ExpressionAnd == 16
ExpressionAndNot == 17
ExpressionLSh == 18
ExpressionRSh == 19
ExpressionNot == 20
ExpressionDot == 21
ExpressionSlice == 22
ExpressionComposite == 23
ExpressionCall == 24
ExpressionArrow == 25
ExpressionArrayType == 26
ExpressionSliceType == 27
ExpressionKeyVal == 28
ExpressionType == 29
ExpressionCallDotDotDot == 30
ExpressionComposed == 31
ExpressionIndex == 32
ExpressionMap == 33
ExpressionIdentifier == 34
ExpressionChan == 35
ExpressionInChan == 36
ExpressionOutChan == 37
ExpressionTotalCount == 38

IncDecStmtPlusPlus == 0
IncDecStmtMinusMinus == 1

AssignStmtEqual == 0
AssignStmtColonEq == 1
AssignStmtAndNot == 2
AssignStmtAdd == 3
AssignStmtSub == 4
AssignStmtMul == 5
AssignStmtQuo == 6
AssignStmtRem == 7
AssignStmtAnd == 8
AssignStmtOr == 9
AssignStmtXor == 10
AssignStmtShl == 11
AssignStmtShr == 12
AssignStmtIotaIsLast == 13
AssignStmtTypeIsLast == 14
AssignStmtMoreEqual == 15
AssignStmtMoreColonEq == 16
AssignStmtMoreEqualRange == 17
AssignStmtMoreColonEqRange == 18
AssignStmtTotalCount == 19

VarDefStmtVar == 0
VarDefStmtConst == 1
VarDefStmtTotalCount == 2

LblGotoCntLabel == 0
LblGotoCntGoto == 1
LblGotoCntContinue == 2
LblGotoCntBreak == 3

TypedIdentNormal == 0
TypedIdentEquals == 1
TypedIdentEllipsis == 2
TypedIdentTagged == 3

TypDefStmtNormal == 0
TypDefStmtAlias == 1

CommentRowEnder == 0
CommentRowNormal == 1
CommentRowSeparate == 2

PackageDefNormal == 0
PackageDefSeparate == 1

----------------------------------------------------------------------------
(* Constructors *)

ToplevFuncNode(receiver, argc) ==
    LET recv == IF receiver THEN 1 ELSE 0
    IN  Slice3(ToplevFunc, recv + 1, argc + recv + 1)

BlocOfCodeNode(kind, headelemscount) ==
    Slice3(BlocOfCode, kind + 1, headelemscount + BlocOfCodeTotalCount)

ExpressionNode(kind, elemscount) ==
    Slice3(Expression, kind + 1, elemscount + ExpressionTotalCount)

BranchStmtNode(kind) == Slice2(BranchStmt, kind + 1)

IncDecStmtNode(kind) == Slice2(IncDecStmt, kind + 1)

AssignStmtNode(kind, elemscount) ==
    Slice3(AssignStmt, kind + 1, elemscount + AssignStmtTotalCount)

ClosureExpNode(paramscount) == Slice2(ClosureExp, paramscount + 1)

GoDferStmtNode(kind) == Slice2(GoDferStmt, kind + 1)

LblGotoCntNode(kind) == Slice2(LblGotoCnt, kind + 1)

VarDefStmtNode(kind) == Slice2(VarDefStmt, kind + 1)

TypDefStmtNode(kind) == Slice2(TypDefStmt, kind + 1)

----------------------------------------------------------------------------
(* Store access and node identity *)

\* ast[key]: the stored value, or the zero value nil for a missing key
Get(m, key) == IF key \in DOMAIN m THEN m[key] ELSE NilSlice

Poke(m, iterator) == iterator \in DOMAIN m

\* &v[0] panics when v has no element 0
Elem0Panics(v) == v.len = 0

\* Which(node): the family the slice starts in, NilSlice for a string;
\* defined where the code does not panic (node = nil or len(node) > 0)
Which(node) ==
    CASE node = NilSlice -> NilSlice
      [] node.ptr = RootMatter.ptr -> RootMatter
      [] node.ptr = FileMatter.ptr -> FileMatter
      [] node.ptr = PackageDef.ptr -> PackageDef
      [] node.ptr = ImportStmt.ptr -> ImportStmt
      [] node.ptr = ImportsDef.ptr -> ImportsDef
      [] node.ptr = ToplevFunc.ptr -> ToplevFunc
      [] node.ptr = TypedIdent.ptr -> TypedIdent
      [] node.ptr = RootOfType.ptr -> RootOfType
      [] node.ptr = BlocOfCode.ptr -> BlocOfCode
      [] node.ptr = TypDefStmt.ptr -> TypDefStmt
      [] node.ptr = StructType.ptr -> StructType
      [] node.ptr = BranchStmt.ptr -> BranchStmt
      [] node.ptr = GoDferStmt.ptr -> GoDferStmt
      [] node.ptr = Expression.ptr -> Expression
      [] node.ptr = ReturnStmt.ptr -> ReturnStmt
      [] node.ptr = IncDecStmt.ptr -> IncDecStmt
      [] node.ptr = AssignStmt.ptr -> AssignStmt
      [] node.ptr = VarDefStmt.ptr -> VarDefStmt
      [] node.ptr = LblGotoCnt.ptr -> LblGotoCnt
      [] node.ptr = ClosureExp.ptr -> ClosureExp
      [] node.ptr = IfceTypExp.ptr -> IfceTypExp
      [] node.ptr = IfceMethod.ptr -> IfceMethod
      [] node.ptr = CommentRow.ptr -> CommentRow
      [] OTHER -> NilSlice

----------------------------------------------------------------------------
(* string(v) *)

\* the zero byte: storage is never written, so its slices hold zero bytes only
NUL == "\\x00"

RECURSIVE Zeros(_)
Zeros(n) == IF n <= 0 THEN "" ELSE NUL \o Zeros(n - 1)

LiteralChars(name) ==
    CASE name = "RootMatter" -> <<"R", "o", "o", "t", "M", "a", "t", "t", "e", "r">>
      [] name = "FileMatter" -> <<"F", "i", "l", "e", "M", "a", "t", "t", "e", "r">>
      [] name = "PackageDef" -> <<"P", "a", "c", "k", "a", "g", "e", "D", "e", "f">>
      [] name = "ImportStmt" -> <<"I", "m", "p", "o", "r", "t", "S", "t", "m", "t">>
      [] name = "ImportsDef" -> <<"I", "m", "p", "o", "r", "t", "s", "D", "e", "f">>
      [] name = "TypedIdent" -> <<"T", "y", "p", "e", "d", "I", "d", "e", "n", "t">>
      [] name = "RootOfType" -> <<"R", "o", "o", "t", "O", "f", "T", "y", "p", "e">>
      [] name = "TypDefStmt" -> <<"T", "y", "p", "D", "e", "f", "S", "t", "m", "t">>
      [] name = "StructType" -> <<"S", "t", "r", "u", "c", "t", "T", "y", "p", "e">>
      [] name = "BranchStmt" -> <<"B", "r", "a", "n", "c", "h", "S", "t", "m", "t">>
      [] name = "GoDferStmt" -> <<"G", "o", "D", "f", "e", "r", "S", "t", "m", "t">>
      [] name = "ReturnStmt" -> <<"R", "e", "t", "u", "r", "n", "S", "t", "m", "t">>
      [] name = "IncDecStmt" -> <<"I", "n", "c", "D", "e", "c", "S", "t", "m", "t">>
      [] name = "VarDefStmt" -> <<"V", "a", "r", "D", "e", "f", "S", "t", "m", "t">>
      [] name = "LblGotoCnt" -> <<"L", "b", "l", "G", "o", "t", "o", "C", "n", "t">>
      [] name = "IfceTypExp" -> <<"I", "f", "c", "e", "T", "y", "p", "E", "x", "p">>
      [] name = "CommentRow" -> <<"C", "o", "m", "m", "e", "n", "t", "R", "o", "w">>

RECURSIVE Concat(_)
Concat(chars) == IF chars = <<>> THEN "" ELSE Head(chars) \o Concat(Tail(chars))

\* string(v): the bytes v[0:len(v)]
String(v) ==
    IF v.ptr[1] \in {"nil", "heap"} THEN v.data
    ELSE IF v.ptr[1] = "storage" THEN Zeros(v.len)
    ELSE Concat(SubSeq(LiteralChars(v.ptr[1]), 1, v.len))

----------------------------------------------------------------------------
(* Code: the text printed before the children (tree.go 676-937) *)

uint64big == -2

Byte(x) == x % 256

\* A uint64 is kept as its residue: k from 0 on stands for itself, k below 0
\* for 2^64 + k, so uint64(n) of a negative int n keeps n (tree.go 1069,
\* 1274) and the order of two uint64 is Below.
\* i < j for two uint64 given by their residues: the residues below 0 stand
\* for the values from 2^63 on
Below(i, j) == IF (i >= 0) = (j >= 0) THEN i < j ELSE i >= 0

\* i == l>>1 for two uint64 given by their residues: l>>1 of a residue below 0
\* is a value from 2^62 on, which no residue stands for
HalfIs(i, l) == l >= 0 /\ i = l \div 2

\* a run of print calls, ended by a run-time panic when p holds
Ok(toks) == [s |-> toks, p |-> FALSE]
Fail(toks) == [s |-> toks, p |-> TRUE]

\* v != nil && &v[0] == &family[0], where &v[0] does not panic
Is(v, family) == v # NilSlice /\ v.ptr = family.ptr

\* &v[0] evaluated without the nil test
Idx0PanicsUnguarded(v) == v.len = 0
\* evaluating &v[0] behind a nil test panics: v is not nil and has no element
Idx0Panics(v) == v # NilSlice /\ v.len = 0

BlocOfCodeKeyword(kind) ==
    CASE kind = BlocOfCodePlain -> <<>>
      [] kind \in {BlocOfCodeIf, BlocOfCodeIfElse} -> <<"if ">>
      [] kind = BlocOfCodeFor -> <<"for ">>
      [] kind = BlocOfCodeForRange -> <<"for range ">>
      [] kind \in {BlocOfCodeSwitch, BlocOfCodeTypeSwitch} -> <<"switch ">>
      [] kind = BlocOfCodeSelect -> <<"select ">>
      [] kind = BlocOfCodeCase -> <<"case ">>
      [] kind \in {BlocOfCodeCommunicateDefault, BlocOfCodeDefault} -> <<"default:", "">>
      [] kind = BlocOfCodeCommunicate -> <<"case ">>
      [] OTHER -> <<>>

BranchStmtKeyword(kind) ==
    CASE kind = BranchStmtSemi -> <<";">>
      [] kind = BranchStmtBreak -> <<"break">>
      [] kind = BranchStmtContinue -> <<"continue">>
      [] kind = BranchStmtFallthrough -> <<"fallthrough">>
      [] kind = BranchStmtGoto -> <<"goto">>
      [] OTHER -> <<>>

ExpressionUnaryPrefix(op) ==
    CASE op = ExpressionBrackets -> <<"(">>
      [] op = ExpressionPlus -> <<"+">>
      [] op = ExpressionMinus -> <<"-">>
      [] op = ExpressionXor -> <<"^">>
      [] op = ExpressionMul -> <<"*">>
      [] op = ExpressionAnd -> <<"&">>
      [] op = ExpressionNot -> <<"!">>
      [] op = ExpressionArrow -> <<"<-">>
      [] op = ExpressionChan -> <<"chan ">>
      [] op = ExpressionInChan -> <<"chan<- ">>
      [] op = ExpressionOutChan -> <<"<-chan ">>
      [] op = ExpressionComposed -> <<"{">>
      [] OTHER -> <<>>

ExpressionPrefix(op, l) ==
    IF l = 1 THEN ExpressionUnaryPrefix(op)
    ELSE CASE op = ExpressionArrayType -> <<"[]">>
           [] op = ExpressionComposed -> <<"{">> \o (IF l = 0 THEN <<"}">> ELSE <<>>)
           [] op = ExpressionSliceType -> <<"[">>
           [] op = ExpressionMap -> <<"map[">>
           [] OTHER -> <<>>

\* a comment that starts with a line break whatever its variant
CommentRowPrefixBroken(node, ast_o_iterator) ==
    <<"">> \o <<ast_o_iterator>>
\* case &CommentRow[0]
CommentRowPrefix(node, ast_o_iterator) ==
    (IF node.len - 1 = CommentRowSeparate THEN <<"">> ELSE <<>>) \o <<ast_o_iterator>>

Prefix(m, iterator, parent) ==
    LET node == Get(m, iterator)
        base == OAt(iterator)
        first == Get(m, base)
        second == Get(m, Add64(base, U64(1)))
        ast_o_iterator == String(first)
        variant == node.len - 1
    IN  IF node = NilSlice THEN Ok(<<>>)
        ELSE IF Elem0Panics(node) THEN Fail(<<>>)
        ELSE CASE node.ptr = CommentRow.ptr ->
                   Ok(CommentRowPrefix(node, ast_o_iterator))
               [] node.ptr = PackageDef.ptr ->
                   Ok((IF variant = PackageDefSeparate THEN <<"">> ELSE <<>>)
                      \o <<"package ", ast_o_iterator>>)
               [] node.ptr = ImportStmt.ptr ->
                   IF Idx0Panics(Get(m, parent)) THEN Fail(<<>>)
                   ELSE LET defparent == Is(Get(m, parent), ImportsDef)
                        IN  Ok((IF defparent THEN <<>> ELSE <<"import ">>)
                               \o <<ast_o_iterator>>
                               \o (IF second.len > 0 THEN <<" ", String(second)>> ELSE <<>>)
                               \o (IF defparent THEN <<"">> ELSE <<>>))
               [] node.ptr = ImportsDef.ptr -> Ok(<<"import (", "">>)
               [] node.ptr = ToplevFunc.ptr ->
                   Ok(<<"func ">> \o (IF node.len = 2 THEN <<"(">> ELSE <<>>))
               [] node.ptr = BlocOfCode.ptr ->
                   Ok(BlocOfCodeKeyword(Byte(variant))
                      \o (IF node.cap = BlocOfCodeTotalCount /\ variant < BlocOfCodeCase
                          THEN <<"{", "">> ELSE <<>>))
               [] node.ptr = RootOfType.ptr -> Ok(<<>>)
               [] node.ptr = TypDefStmt.ptr ->
                   Ok(<<"type ", ast_o_iterator, " ">>
                      \o (IF Byte(variant) = TypDefStmtAlias THEN <<"= ">> ELSE <<>>))
               [] node.ptr = StructType.ptr ->
                   Ok(<<"struct{">> \o (IF first # NilSlice THEN <<"">> ELSE <<>>))
               [] node.ptr = IfceTypExp.ptr ->
                   Ok(<<"interface{">> \o (IF first # NilSlice THEN <<"">> ELSE <<>>))
               [] node.ptr = GoDferStmt.ptr ->
                   Ok(CASE Byte(variant) = GoDferStmtGo -> <<"go ">>
                        [] Byte(variant) = GoDferStmtDefer -> <<"defer ">>
                        [] OTHER -> <<>>)
               [] node.ptr = BranchStmt.ptr -> Ok(BranchStmtKeyword(Byte(variant)))
               [] node.ptr = Expression.ptr ->
                   Ok(ExpressionPrefix(Byte(variant), Byte(node.cap - ExpressionTotalCount)))
               [] node.ptr = ReturnStmt.ptr -> Ok(<<"return ">>)
               [] node.ptr = VarDefStmt.ptr ->
                   LET multi == second.len > 0
                       none == first.len = 0
                   IN  Ok((CASE Byte(variant) = VarDefStmtVar -> <<"var ">>
                             [] Byte(variant) = VarDefStmtConst -> <<"const ">>
                             [] OTHER -> <<>>)
                          \o (IF multi THEN <<"(", "">> ELSE IF none THEN <<"()">> ELSE <<>>))
               [] node.ptr = LblGotoCnt.ptr ->
                   Ok(CASE Byte(variant) = LblGotoCntGoto -> <<"goto ">>
                        [] Byte(variant) = LblGotoCntContinue -> <<"continue ">>
                        [] Byte(variant) = LblGotoCntBreak -> <<"break ">>
                        [] OTHER -> <<>>)
               [] node.ptr = ClosureExp.ptr ->
                   IF Idx0Panics(first) THEN Fail(<<"func(">>)
                   ELSE LET end == first = NilSlice \/ first.ptr = BlocOfCode.ptr
                        IN  Ok(<<"func(">>
                               \o (IF variant = 0 THEN <<")(">> ELSE <<>>)
                               \o (IF end THEN <<")">> ELSE <<>>))
               [] node.ptr = TypedIdent.ptr ->
                   IF Idx0Panics(second) THEN Fail(<<>>)
                   ELSE IF second = NilSlice \/ second.ptr # RootOfType.ptr
                        THEN Ok(IF Byte(variant) = TypedIdentEllipsis THEN <<"...">> ELSE <<>>)
                        ELSE Ok(<<>>)
               [] OTHER -> Ok(<<>>)

----------------------------------------------------------------------------
(* Code: the text printed after the loop body's recursion, for loop index  *)
(* i; i = uint64big is the pass after the first absent key                  *)
(* (tree.go 944-1475)                                                      *)

\* the separators with a comma after the callee as after an argument
ExpressionInfixComma(op, i) ==
    CASE op = ExpressionDot -> <<".">>
      [] op \in {ExpressionCallDotDotDot, ExpressionCall} ->
            <<",">>
      [] op = ExpressionOrOr -> <<" || ">>
      [] op = ExpressionAndAnd -> <<" && ">>
      [] op = ExpressionEqual -> <<" == ">>
      [] op = ExpressionNotEq -> <<" != ">>
      [] op = ExpressionLessThan -> <<" < ">>
      [] op = ExpressionLessEq -> <<" <= ">>
      [] op = ExpressionGrtEq -> <<" >= ">>
      [] op = ExpressionGrtThan -> <<" > ">>
      [] op = ExpressionPlus -> <<" + ">>
      [] op = ExpressionMinus -> <<" - ">>
      [] op = ExpressionOr -> <<" | ">>
      [] op = ExpressionXor -> <<" ^ ">>
      [] op = ExpressionMul -> <<" * ">>
      [] op = ExpressionDiv -> <<" / ">>
      [] op = ExpressionMod -> <<" % ">>
      [] op = ExpressionAnd -> <<" & ">>
      [] op = ExpressionAndNot -> <<" &^ ">>
      [] op = ExpressionLSh -> <<" << ">>
      [] op = ExpressionRSh -> <<" >> ">>
      [] op = ExpressionArrow -> <<" <- ">>
      [] op = ExpressionKeyVal -> <<":">>
      [] op = ExpressionIndex -> <<"[">>
      [] op = ExpressionSlice -> IF i = 1 THEN <<"[">> ELSE <<":">>
      [] op = ExpressionComposite -> IF i = 1 THEN <<"{">> ELSE <<", ">>
      [] op = ExpressionComposed -> <<", ">>
      [] op \in {ExpressionMap, ExpressionSliceType} -> <<"]">>
      [] op = ExpressionType -> <<".(">>
      [] OTHER -> <<>>
\* the text between child number i and the next child of an Expression of l > 1 slots
ExpressionInfix(op, i) ==
    CASE op = ExpressionDot -> <<".">>
      [] op \in {ExpressionCallDotDotDot, ExpressionCall} ->
            IF i = 1 THEN <<"(">> ELSE <<",">>
      [] op = ExpressionOrOr -> <<" || ">>
      [] op = ExpressionAndAnd -> <<" && ">>
      [] op = ExpressionEqual -> <<" == ">>
      [] op = ExpressionNotEq -> <<" != ">>
      [] op = ExpressionLessThan -> <<" < ">>
      [] op = ExpressionLessEq -> <<" <= ">>
      [] op = ExpressionGrtEq -> <<" >= ">>
      [] op = ExpressionGrtThan -> <<" > ">>
      [] op = ExpressionPlus -> <<" + ">>
      [] op = ExpressionMinus -> <<" - ">>
      [] op = ExpressionOr -> <<" | ">>
      [] op = ExpressionXor -> <<" ^ ">>
      [] op = ExpressionMul -> <<" * ">>
      [] op = ExpressionDiv -> <<" / ">>
      [] op = ExpressionMod -> <<" % ">>
      [] op = ExpressionAnd -> <<" & ">>
      [] op = ExpressionAndNot -> <<" &^ ">>
      [] op = ExpressionLSh -> <<" << ">>
      [] op = ExpressionRSh -> <<" >> ">>
      [] op = ExpressionArrow -> <<" <- ">>
      [] op = ExpressionKeyVal -> <<":">>
      [] op = ExpressionIndex -> <<"[">>
      [] op = ExpressionSlice -> IF i = 1 THEN <<"[">> ELSE <<":">>
      [] op = ExpressionComposite -> IF i = 1 THEN <<"{">> ELSE <<", ">>
      [] op = ExpressionComposed -> <<", ">>
      [] op \in {ExpressionMap, ExpressionSliceType} -> <<"]">>
      [] op = ExpressionType -> <<".(">>
      [] OTHER -> <<>>

ExpressionSole(op) ==
    CASE op = ExpressionBrackets -> <<")">>
      [] op \in {ExpressionCallDotDotDot, ExpressionCall} -> <<"()">>
      [] op = ExpressionComposed -> <<"}">>
      [] op = ExpressionComposite -> <<"{}">>
      [] op = ExpressionType -> <<".(type)">>
      [] OTHER -> <<>>

\* the closing text with a comma after the last element of a literal
ExpressionCloseComma(op, l) ==
    CASE op = ExpressionIndex -> <<"]">>
      [] op = ExpressionSlice -> IF l = 2 THEN <<":]">> ELSE <<"]">>
      [] op \in {ExpressionComposed, ExpressionComposite} -> <<", ", "}">>
      [] op = ExpressionCallDotDotDot -> <<"...)">>
      [] op = ExpressionCall -> <<")">>
      [] op = ExpressionType -> <<")">>
      [] OTHER -> <<>>
\* the text after the last child of an Expression of l > 1 slots
ExpressionClose(op, l) ==
    CASE op = ExpressionIndex -> <<"]">>
      [] op = ExpressionSlice -> IF l = 2 THEN <<":]">> ELSE <<"]">>
      [] op \in {ExpressionComposed, ExpressionComposite} -> <<"}">>
      [] op = ExpressionCallDotDotDot -> <<"...)">>
      [] op = ExpressionCall -> <<")">>
      [] op = ExpressionType -> <<")">>
      [] OTHER -> <<>>

\* the separator after child number i (counted from 1) of an Expression of l
\* slots, i and l uint64
ExpressionSeparator(op, l, i) ==
    IF ((~Below(i, 1)) = Below(1, l)) /\ (i # l)
    THEN IF i = 0 THEN <<>> ELSE ExpressionInfix(op, i)
    ELSE IF (i = 1) /\ (l = 1) THEN ExpressionSole(op)
    ELSE IF (i = l) /\ Below(0, i) THEN ExpressionClose(op, l)
    ELSE <<>>

AssignStmtMoreOperator(op) ==
    CASE op = AssignStmtMoreEqual -> <<" = ">>
      [] op = AssignStmtMoreColonEq -> <<" := ">>
      [] op = AssignStmtMoreEqualRange -> <<" = range ">>
      [] op = AssignStmtMoreColonEqRange -> <<" := range ">>
      [] op = AssignStmtIotaIsLast -> <<", ">>
      [] OTHER -> <<>>

AssignStmtOperator(op) ==
    CASE op = AssignStmtEqual -> <<" = ">>
      [] op = AssignStmtColonEq -> <<" := ">>
      [] op = AssignStmtAdd -> <<" += ">>
      [] op = AssignStmtSub -> <<" -= ">>
      [] op = AssignStmtMul -> <<" *= ">>
      [] op = AssignStmtQuo -> <<" /= ">>
      [] op = AssignStmtRem -> <<" %= ">>
      [] op = AssignStmtAnd -> <<" &= ">>
      [] op = AssignStmtOr -> <<" |= ">>
      [] op = AssignStmtXor -> <<" ^= ">>
      [] op = AssignStmtShl -> <<" <<= ">>
      [] op = AssignStmtShr -> <<" >>= ">>
      [] op = AssignStmtAndNot -> <<" &^= ">>
      [] op \in {AssignStmtMoreEqual, AssignStmtMoreColonEq,
                 AssignStmtMoreEqualRange, AssignStmtMoreColonEqRange} -> <<", ">>
      [] op = AssignStmtIotaIsLast -> <<", ">>
      [] OTHER -> <<>>

\* the separators with the operator after child number l/2, rounded down
AssignStmtSeparatorFloor(op, l, i) ==
    IF i = l THEN <<" ">>
    ELSE IF (i + 1 = l) /\ (op > AssignStmtTypeIsLast) THEN AssignStmtMoreOperator(op)
    ELSE IF HalfIs(i, l) /\ (op # AssignStmtTypeIsLast) THEN AssignStmtOperator(op)
    ELSE IF HalfIs(i, l) /\ (op < AssignStmtTypeIsLast) THEN <<" ">>
    ELSE IF Below(0, i) /\ ((i + 1 # l) \/ (op # AssignStmtTypeIsLast)) THEN <<", ">>
    ELSE IF Below(0, i) THEN <<" ">>
    ELSE <<>>
\* the separator after child number i (counted from 1) of an AssignStmt of l
\* slots, i and l uint64
AssignStmtSeparator(op, l, i) ==
    IF i = l THEN <<" ">>
    ELSE IF (i + 1 = l) /\ (op > AssignStmtTypeIsLast) THEN AssignStmtMoreOperator(op)
    ELSE IF HalfIs(i, l + 1) /\ (op # AssignStmtTypeIsLast) THEN AssignStmtOperator(op)
    ELSE IF HalfIs(i, l) /\ (op < AssignStmtTypeIsLast) THEN <<" ">>
    ELSE IF Below(0, i) /\ ((i + 1 # l) \/ (op # AssignStmtTypeIsLast)) THEN <<", ">>
    ELSE IF Below(0, i) THEN <<" ">>
    ELSE <<>>

\* print(string(v)) of a child that is a string and not empty
StringChild(v) == IF Which(v) = NilSlice /\ v.len > 0 THEN <<String(v)>> ELSE <<>>

\* the pass of a function that omits the brackets of an empty parameter list
ToplevFuncPostBare(node, ast_o_iterator, cur, nxt, i) ==
    LET alpha == cur = NilSlice \/ cur.ptr = BlocOfCode.ptr
        beta == nxt = NilSlice \/ nxt.ptr = BlocOfCode.ptr
        gamma == node.cap = node.len
        epsil == node.len - 1 # 0
        omega == i # uint64big
        theta == i = 0
        phi == i = 1
        rho == i + 1 = node.cap
    IN  (IF alpha THEN <<>>
         ELSE IF beta THEN
            IF gamma /\ omega /\ (epsil = phi) /\ (theta # phi)
            THEN (IF phi THEN <<") ">> ELSE <<>>) \o <<ast_o_iterator>>
            ELSE <<")">>
         ELSE (IF ~theta
               THEN (IF epsil /\ phi THEN <<") ", ast_o_iterator, "(">>
                     ELSE IF ~rho THEN <<", ">> ELSE <<>>)
               ELSE IF ~epsil THEN <<ast_o_iterator, "(">> ELSE <<>>)
              \o (IF rho THEN <<")(">> ELSE <<>>))
        \o (IF i = uint64big THEN <<"">> ELSE <<>>)
\* case &ToplevFunc[0] after the child at index i, or after the loop
ToplevFuncPost(node, ast_o_iterator, cur, nxt, i) ==
    LET alpha == cur = NilSlice \/ cur.ptr = BlocOfCode.ptr
        beta == nxt = NilSlice \/ nxt.ptr = BlocOfCode.ptr
        gamma == node.cap = node.len
        epsil == node.len - 1 # 0
        omega == i # uint64big
        theta == i = 0
        phi == i = 1
        rho == i + 1 = node.cap
    IN  (IF alpha THEN <<>>
         ELSE IF beta THEN
            IF gamma /\ omega /\ (epsil = phi) /\ (theta # phi)
            THEN (IF phi THEN <<") ">> ELSE <<>>) \o <<ast_o_iterator, "()">>
            ELSE <<")">>
         ELSE (IF ~theta
               THEN (IF epsil /\ phi THEN <<") ", ast_o_iterator, "(">>
                     ELSE IF ~rho THEN <<", ">> ELSE <<>>)
               ELSE IF ~epsil THEN <<ast_o_iterator, "(">> ELSE <<>>)
              \o (IF rho THEN <<")(">> ELSE <<>>))
        \o (IF i = uint64big THEN <<"">> ELSE <<>>)

TypedIdentPost(node, prev, cur, nxt) ==
    IF Idx0Panics(cur) THEN Fail(<<>>)
    ELSE IF cur # NilSlice /\ cur.ptr # RootOfType.ptr THEN
        IF Idx0Panics(prev) THEN Fail(<<>>)
        ELSE LET gap == IF Is(prev, RootOfType) THEN <<" ">> ELSE <<>>
                 op == Byte(node.len - 1)
             IN  IF Idx0Panics(nxt) THEN Fail(gap \o <<String(cur)>>)
                 ELSE Ok(gap \o <<String(cur)>>
                         \o (IF nxt # NilSlice /\ nxt.ptr # RootOfType.ptr THEN <<", ">>
                             ELSE CASE op \in {TypedIdentTagged, TypedIdentNormal} -> <<" ">>
                                    [] op = TypedIdentEquals -> <<" = ">>
                                    [] op = TypedIdentEllipsis -> <<" ...">>
                                    [] OTHER -> <<>>))
    ELSE Ok(<<>>)

\* the pass of a block that prints no line break after a body statement
BlocOfCodePostJoined(node, i) ==
    LET variant == node.len - 1
    IN  IF i # uint64big THEN
            IF i + BlocOfCodeTotalCount + 1 = node.cap THEN
                IF variant = BlocOfCodeCase THEN <<":", "">>
                ELSE IF variant = BlocOfCodeCommunicate THEN <<":", "">>
                ELSE IF variant < BlocOfCodeCase THEN <<"{", "">>
                ELSE <<>>
            ELSE IF variant = BlocOfCodeCase THEN <<", ">>
            ELSE <<>>
        ELSE (IF variant < BlocOfCodeCase THEN <<"}">> ELSE <<>>)
             \o (IF variant = BlocOfCodeIfElse THEN <<" else">> ELSE <<>>)
\* case &BlocOfCode[0] after the child at index i, or after the loop
BlocOfCodePost(node, i) ==
    LET variant == node.len - 1
    IN  IF i # uint64big THEN
            IF i + BlocOfCodeTotalCount + 1 = node.cap THEN
                IF variant = BlocOfCodeCase THEN <<":", "">>
                ELSE IF variant = BlocOfCodeCommunicate THEN <<":", "">>
                ELSE IF variant < BlocOfCodeCase THEN <<"{", "">>
                ELSE <<>>
            ELSE IF i + BlocOfCodeTotalCount + 1 > node.cap THEN <<"">>
            ELSE IF variant = BlocOfCodeCase THEN <<", ">>
            ELSE <<>>
        ELSE (IF variant < BlocOfCodeCase THEN <<"}">> ELSE <<>>)
             \o (IF variant = BlocOfCodeIfElse THEN <<" else">> ELSE <<>>)

FileMatterPost(cur, nxt) ==
    LET xyz == nxt = NilSlice \/ nxt.ptr = CommentRow.ptr
        abc == Is(cur, CommentRow)
        def == Is(nxt, CommentRow)
        end == nxt.len - 1 = CommentRowEnder
        ene == cur.len - 1 = CommentRowEnder
    IN  (IF ~xyz \/ ~end THEN <<"">> ELSE <<>>)
        \o (IF abc /\ def /\ end /\ ene THEN <<"">> ELSE <<>>)

ClosureExpPost(node, cur, nxt, i) ==
    LET end == nxt = NilSlice \/ nxt.ptr = BlocOfCode.ptr
        xyz == cur = NilSlice \/ cur.ptr = BlocOfCode.ptr
        separ == node.len - 1
    IN  IF end THEN (IF ~xyz THEN <<")">> ELSE <<>>)
        ELSE IF ~xyz THEN (IF i + 1 = separ THEN <<")(">> ELSE <<", ">>)
        ELSE <<>>

IfceMethodPost(node, nxt, i) ==
    LET end == nxt = NilSlice
        op == node.len - 1
    IN  IF i = 0 THEN
            IF end THEN <<"()">>
            ELSE (IF 0 = op THEN <<"()">> ELSE <<>>) \o <<"(">>
        ELSE IF i # uint64big THEN
            IF end THEN <<")">>
            ELSE IF i = op THEN <<")(">> ELSE <<", ">>
        ELSE <<>>

Post(m, iterator, i) ==
    LET node == Get(m, iterator)
        base == OAt(iterator)
        first == Get(m, base)
        ast_o_iterator == String(first)
        prev == Get(m, Add64(base, U64(i - 1)))
        cur == Get(m, Add64(base, U64(i)))
        nxt == Get(m, Add64(base, U64(i + 1)))
        op == Byte(node.len - 1)
    IN  IF node = NilSlice THEN Ok(<<>>)
        ELSE IF Elem0Panics(node) THEN Fail(<<>>)
        ELSE CASE node.ptr = ImportsDef.ptr ->
                   Ok(IF i = uint64big THEN <<")">> ELSE <<>>)
               [] node.ptr = ToplevFunc.ptr ->
                   IF Idx0Panics(cur) \/ Idx0Panics(nxt) THEN Fail(<<>>)
                   ELSE Ok(ToplevFuncPost(node, ast_o_iterator, cur, nxt, i))
               [] node.ptr = TypedIdent.ptr -> TypedIdentPost(node, prev, cur, nxt)
               [] node.ptr = BlocOfCode.ptr -> Ok(BlocOfCodePost(node, i))
               [] node.ptr = TypDefStmt.ptr ->
                   Ok(IF i = uint64big THEN <<"">> ELSE <<>>)
               [] node.ptr \in {IfceTypExp.ptr, StructType.ptr} ->
                   Ok(IF i = uint64big THEN <<"}">> ELSE <<"">>)
               [] node.ptr = GoDferStmt.ptr -> Ok(<<>>)
               [] node.ptr = Expression.ptr ->
                   IF Idx0Panics(cur) THEN Fail(<<>>)
                   ELSE Ok(StringChild(cur)
                           \o (IF i # uint64big
                               THEN ExpressionSeparator(op, node.cap - ExpressionTotalCount, i + 1)
                               ELSE <<>>))
               [] node.ptr = ReturnStmt.ptr ->
                   Ok(IF i # uint64big /\ nxt # NilSlice THEN <<", ">> ELSE <<>>)
               [] node.ptr = IncDecStmt.ptr ->
                   IF i = 0 /\ Idx0Panics(first) THEN Fail(<<>>)
                   ELSE Ok((IF i = 0 THEN StringChild(first) ELSE <<>>)
                           \o (IF i = uint64big
                               THEN CASE op = IncDecStmtPlusPlus -> <<"++">>
                                      [] op = IncDecStmtMinusMinus -> <<"--">>
                                      [] OTHER -> <<>>
                               ELSE <<>>))
               [] node.ptr = AssignStmt.ptr ->
                   IF Idx0Panics(cur) THEN Fail(<<>>)
                   ELSE Ok(StringChild(cur)
                           \o (IF i # uint64big
                               THEN AssignStmtSeparator(op, node.cap - AssignStmtTotalCount, i + 1)
                               ELSE <<>>))
               [] node.ptr = RootOfType.ptr ->
                   IF i = uint64big /\ Idx0Panics(first) THEN Fail(<<>>)
                   ELSE Ok(IF i = uint64big THEN StringChild(first) ELSE <<>>)
               [] node.ptr = LblGotoCnt.ptr ->
                   Ok(IF i = uint64big
                      THEN CASE op \in {LblGotoCntBreak, LblGotoCntContinue, LblGotoCntGoto} ->
                                   <<ast_o_iterator>>
                             [] op = LblGotoCntLabel -> <<ast_o_iterator, ": ">>
                             [] OTHER -> <<>>
                      ELSE <<>>)
               [] node.ptr = VarDefStmt.ptr ->
                   Ok(IF i # uint64big
                      THEN (IF cur.len # 0 /\ nxt.len # 0 THEN <<"">> ELSE <<>>)
                           \o (IF prev.len # 0 /\ nxt.len = 0 THEN <<"", ")", "">> ELSE <<>>)
                      ELSE <<>>)
               [] node.ptr = FileMatter.ptr ->
                   IF i = uint64big THEN Ok(<<>>)
                   ELSE IF Idx0Panics(nxt) \/ Idx0Panics(cur) THEN Fail(<<>>)
                   ELSE Ok(FileMatterPost(cur, nxt))
               [] node.ptr = ClosureExp.ptr ->
                   IF i = uint64big THEN Ok(<<>>)
                   ELSE IF Idx0Panics(nxt) \/ Idx0Panics(cur) THEN Fail(<<>>)
                   ELSE Ok(ClosureExpPost(node, cur, nxt, i))
               [] node.ptr = IfceMethod.ptr -> Ok(IfceMethodPost(node, nxt, i))
               [] OTHER -> Ok(<<>>)

----------------------------------------------------------------------------
(* Code: the recursive walk (tree.go 673-677, 938-943) *)

\* the phase tag of the prints made before the loop; the loop's prints are
\* tagged with the loop index
PrefixPhase == -1

CallEv(iterator, parent) ==
    [kind |-> "call", node |-> iterator, from |-> parent, i |-> 0, s |-> ""]

PrintEv(iterator, i, str) ==
    [kind |-> "print", node |-> iterator, from |-> iterator, i |-> i, s |-> str]

PanicEv(iterator, i) ==
    [kind |-> "panic", node |-> iterator, from |-> iterator, i |-> i, s |-> ""]

\* the end of the loop body for index i
PassEv(iterator, i) ==
    [kind |-> "pass", node |-> iterator, from |-> iterator, i |-> i, s |-> ""]

Emit(iterator, i, r) ==
    [k \in 1..Len(r.s) |-> PrintEv(iterator, i, r.s[k])]
    \o (IF r.p THEN <<PanicEv(iterator, i)>> ELSE <<>>)

Panicked(t) == t # <<>> /\ t[Len(t)].kind = "panic"

\* a panic ends the walk: t up to its first panic
UpToPanic(t) ==
    LET at == {k \in 1..Len(t) : t[k].kind = "panic"}
    IN  IF at = {} THEN t
        ELSE SubSeq(t, 1, CHOOSE k \in at : \A h \in at : k <= h)

\* the passes of the for loop from index i on: the body runs while
\* i < uint64big; an absent key sets i to uint64big before the switch, and
\* i++ then ends the loop
RECURSIVE LoopPasses(_, _, _)
LoopPasses(m, base, i) ==
    IF ~Below(i, uint64big) THEN 0
    ELSE IF Poke(m, Add64(base, U64(i))) THEN 1 + LoopPasses(m, base, i + 1)
    ELSE 1

\* the passes one after the other
RECURSIVE Joined(_, _)
Joined(passes, k) ==
    IF k > Len(passes) THEN <<>> ELSE passes[k] \o Joined(passes, k + 1)

RECURSIVE Walk(_, _, _)

\* a loop body that prints the text after child i before it renders child i
CodeLoopPostFirst(m, iterator, i) ==
    LET key == Add64(OAt(iterator), U64(i))
        j == IF Poke(m, key) THEN i ELSE uint64big
    IN  Emit(iterator, j, Post(m, iterator, j))
        \o ((IF Poke(m, key) THEN Walk(m, key, iterator) ELSE <<>>)
            \o <<PassEv(iterator, j)>>)
\* the body of the for loop at index i: the child at O(iterator)+i if the
\* store holds one, then the text after it
CodeLoop(m, iterator, i) ==
    LET key == Add64(OAt(iterator), U64(i))
        j == IF Poke(m, key) THEN i ELSE uint64big
    IN  (IF Poke(m, key) THEN Walk(m, key, iterator) ELSE <<>>)
        \o (Emit(iterator, j, Post(m, iterator, j))
            \o <<PassEv(iterator, j)>>)

\* Code as it would run if a panic did not end it: the call, the text before
\* the children, and the passes of the loop in order
Walk(m, iterator, parent) ==
    Joined(<<(<<CallEv(iterator, parent)>>
             \o Emit(iterator, PrefixPhase, Prefix(m, iterator, parent)))>>
           \o [k \in 1..LoopPasses(m, OAt(iterator), 0) |-> CodeLoop(m, iterator, k - 1)],
           1)

Code(m, iterator, parent) == UpToPanic(Walk(m, iterator, parent))

\* the strings handed to print, in order
Printed(t) == LET p == SelectSeq(t, LAMBDA e : e.kind = "print")
              IN  [k \in 1..Len(p) |-> p[k].s]

----------------------------------------------------------------------------
(* The tree builder's contract: a node at key a has child number i at      *)
(* O(a)+i.  A tree is a record [rec, kids]: the node's value and the       *)
(* sequence of its subtrees.                                               *)

T(rec, kids) == [rec |-> rec, kids |-> kids]

RECURSIVE Plant(_, _)
Plant(t, key) ==
    {<<key, t.rec>>}
    \cup (IF Len(t.kids) = 0 THEN {}
          ELSE With(OAt(key), LAMBDA base :
                   UNION {Plant(t.kids[k], Add64(base, U64(k - 1))) :
                             k \in 1..Len(t.kids)}))

\* the keys that tree t occupies when it is planted at key, as far down as
\* the table tab of O reaches
RECURSIVE PlantKeys(_, _, _)
PlantKeys(t, key, tab) ==
    {key} \cup (IF Len(t.kids) = 0 \/ key \notin DOMAIN tab THEN {}
                ELSE With(tab[key], LAMBDA base :
                         UNION {PlantKeys(t.kids[k], Add64(base, U64(k - 1)), tab) :
                                   k \in 1..Len(t.kids)}))

\* the store holding tree t at the root key 0
StoreOf(t) ==
    LET pairs == Plant(t, Zero)
    IN  [key \in {p[1] : p \in pairs} |-> (CHOOSE p \in pairs : p[1] = key)[2]]

EmptyStore == [key \in {} |-> NilSlice]

\* m with m[key] = v
Assign(m, key, v) == [k \in DOMAIN m \cup {key} |-> IF k = key THEN v ELSE m[k]]

Str(s) == T(Bytes(s), <<>>)
Ident(s) == T(ExpressionNode(ExpressionIdentifier, 1), <<Str(s)>>)
TypeOf(s) == T(RootOfType, <<Str(s)>>)
Param(name, type) == T(Slice2(TypedIdent, TypedIdentNormal + 1), <<Str(name), TypeOf(type)>>)
Result(type) == T(Slice2(TypedIdent, TypedIdentNormal + 1), <<TypeOf(type)>>)
Break == T(BranchStmtNode(BranchStmtBreak), <<>>)
Block(kind, header, body) == T(BlocOfCodeNode(kind, Len(header)), header \o body)
Comment(kind, text) == T(Slice2(CommentRow, kind + 1), <<Str(text)>>)

----------------------------------------------------------------------------
(* The trees the stores are planted from *)

MaxArgs == 2      \* declared arguments of a function
MaxHeader == 2    \* declared header elements of a block
MaxRun == 3       \* children of a block
MaxSlots == 3     \* declared elements of an expression
MaxPairs == 3     \* elements of a composite literal
MaxPuts == 1      \* single writes after planting
MaxResults == 2   \* results of a function
MaxCallArgs == 3  \* arguments of a call
MaxAssign == 5    \* elements of an assignment

Names == <<"a", "b", "c", "d", "e", "f", "g">>
Leaves(n) == [k \in 1..n |-> Str(Names[k])]
Repeat(t, n) == [k \in 1..n |-> t]

FuncTrees ==
    {T(ToplevFuncNode(receiver, argc),
       <<Str("f")>>
       \o (IF receiver THEN <<Param("r", "R")>> ELSE <<>>)
       \o Repeat(Param("x", "int"), argc)
       \o Repeat(Result("int"), nres)
       \o (IF body THEN <<Block(BlocOfCodePlain, <<>>, <<>>)>> ELSE <<>>)) :
     receiver \in BOOLEAN, argc \in 0..MaxArgs, nres \in 0..MaxResults, body \in BOOLEAN}

BlockTrees ==
    {T(BlocOfCodeNode(kind, h),
       [k \in 1..n |-> IF k <= h THEN Ident(Names[k]) ELSE Break]) :
     kind \in 0..(BlocOfCodeTotalCount - 1), h \in 0..MaxHeader, n \in 0..MaxRun}

IfElse(cond) == Block(BlocOfCodeIfElse, <<Ident(cond)>>, <<Break>>)

IfChainTrees ==
    {Block(BlocOfCodePlain, <<>>, <<IfElse("c1"), IfElse("c2"), last>>) :
     last \in {Block(BlocOfCodePlain, <<>>, <<Break>>),
               Block(BlocOfCodeIf, <<Ident("c3")>>, <<Break>>)}}
    \cup {Block(BlocOfCodePlain, <<>>, <<IfElse("c1"), Block(BlocOfCodePlain, <<>>, <<Break>>)>>)}

KeyVal(k) == T(ExpressionNode(ExpressionKeyVal, 2),
               <<Str(<<"k1", "k2", "k3", "k4">>[k]), Str(<<"v1", "v2", "v3", "v4">>[k])>>)

CompositeTrees ==
    {T(ExpressionNode(ExpressionComposite, n + 1),
       <<Str("T")>> \o [k \in 1..n |-> KeyVal(k)]) : n \in 0..MaxPairs}

ExprTrees ==
    {T(ExpressionNode(op, l), Leaves(l)) :
     op \in 0..(ExpressionTotalCount - 1), l \in 0..MaxSlots}

AssignTrees ==
    {T(AssignStmtNode(op, l), Leaves(l)) :
     op \in 0..(AssignStmtTotalCount - 1), l \in 0..MaxAssign}

\* f(..): the callee and the arguments as strings, as identifiers, and a
\* call whose first argument is a call
CallTrees ==
    {T(ExpressionNode(ExpressionCall, n + 1), Leaves(n + 1)) : n \in 0..MaxCallArgs}
    \cup {T(ExpressionNode(ExpressionCall, n + 1), [k \in 1..(n + 1) |-> Ident(Names[k])]) :
          n \in 0..MaxCallArgs}
    \cup {T(ExpressionNode(ExpressionCall, 3),
            <<Ident("f"), T(ExpressionNode(ExpressionCall, 2), <<Ident("g"), Str("x")>>),
              Str("y")>>)}

CommentTrees ==
    {Comment(kind, "// c") : kind \in {CommentRowEnder, CommentRowNormal, CommentRowSeparate}}

Return2 == T(ReturnStmt, <<Ident("a"), Ident("b")>>)

FileTree ==
    T(RootMatter,
      <<T(FileMatter,
          <<T(Slice2(PackageDef, PackageDefNormal + 1), <<Str("main")>>),
            T(ImportStmt, <<Str("\"fmt\"")>>),
            Comment(CommentRowSeparate, "// c"),
            T(ToplevFuncNode(FALSE, 0),
              <<Str("f"), Result("int"), Result("int"),
                Block(BlocOfCodePlain, <<>>, <<Return2>>)>>)>>)>>)

MiscTrees ==
    {FileTree,
     T(ImportsDef, <<T(ImportStmt, <<Str("\"fmt\"")>>), T(ImportStmt, <<Str("m"), Str("\"math\"")>>)>>),
     T(TypDefStmtNode(TypDefStmtNormal), <<Str("S"), T(StructType, <<Param("x", "int")>>)>>),
     T(TypDefStmtNode(TypDefStmtAlias), <<Str("I"), T(IfceTypExp, <<>>)>>),
     T(IfceTypExp, <<T(Slice2(IfceMethod, 2), <<Param("m", "int"), Result("int")>>)>>),
     T(VarDefStmtNode(VarDefStmtVar), <<T(AssignStmtNode(AssignStmtEqual, 2), Leaves(2))>>),
     T(VarDefStmtNode(VarDefStmtConst),
       <<T(AssignStmtNode(AssignStmtEqual, 2), Leaves(2)),
         T(AssignStmtNode(AssignStmtIotaIsLast, 1), Leaves(1))>>),
     T(GoDferStmtNode(GoDferStmtDefer), <<T(ExpressionNode(ExpressionCall, 1), Leaves(1))>>),
     T(LblGotoCntNode(LblGotoCntGoto), <<Str("L")>>),
     T(LblGotoCntNode(LblGotoCntLabel), <<Str("L")>>),
     T(IncDecStmtNode(IncDecStmtPlusPlus), <<Str("i")>>),
     T(IncDecStmtNode(IncDecStmtMinusMinus), <<Ident("i")>>),
     T(ClosureExpNode(1), <<Param("x", "int"), Result("int"), Block(BlocOfCodePlain, <<>>, <<>>)>>),
     T(ClosureExpNode(0), <<Block(BlocOfCodePlain, <<>>, <<Break>>)>>)}

Trees == FuncTrees \cup BlockTrees \cup IfChainTrees \cup CompositeTrees
         \cup ExprTrees \cup AssignTrees \cup CommentTrees \cup MiscTrees
         \cup CallTrees

----------------------------------------------------------------------------
(* Constructor calls *)

Constructors ==
    {"ToplevFuncNode", "BlocOfCodeNode", "ExpressionNode", "AssignStmtNode", "ClosureExpNode",
     "BranchStmtNode", "IncDecStmtNode", "GoDferStmtNode", "LblGotoCntNode", "VarDefStmtNode",
     "TypDefStmtNode"}

\* the in-range kinds of a constructor (the receiver flag of ToplevFuncNode as 0 or 1;
\* ClosureExpNode takes no kind)
Kinds(ctor) ==
    CASE ctor = "ToplevFuncNode" -> 0..1
      [] ctor = "BlocOfCodeNode" -> 0..(BlocOfCodeTotalCount - 1)
      [] ctor = "ExpressionNode" -> 0..(ExpressionTotalCount - 1)
      [] ctor = "AssignStmtNode" -> 0..(AssignStmtTotalCount - 1)
      [] ctor = "ClosureExpNode" -> {0}
      [] ctor = "BranchStmtNode" -> BranchStmtSemi..BranchStmtGoto
      [] ctor = "IncDecStmtNode" -> IncDecStmtPlusPlus..IncDecStmtMinusMinus
      [] ctor = "GoDferStmtNode" -> GoDferStmtGo..GoDferStmtDefer
      [] ctor = "LblGotoCntNode" -> LblGotoCntLabel..LblGotoCntBreak
      [] ctor = "VarDefStmtNode" -> 0..(VarDefStmtTotalCount - 1)
      [] ctor = "TypDefStmtNode" -> TypDefStmtNormal..TypDefStmtAlias

\* the constructors that take a count
Counted == {"ToplevFuncNode", "BlocOfCodeNode", "ExpressionNode", "AssignStmtNode",
            "ClosureExpNode"}

\* counts around 2^8, for the family whose count Code also reads as a byte
ByteSpan == 256
WideCounts == {ByteSpan - 1, ByteSpan, ByteSpan + 1}

Counts(ctor) ==
    IF ctor = "ExpressionNode" THEN 0..MaxSlots \cup WideCounts
    ELSE IF ctor \in Counted THEN 0..MaxSlots
    ELSE {0}

Construct(ctor, kind, n) ==
    CASE ctor = "ToplevFuncNode" -> ToplevFuncNode(kind = 1, n)
      [] ctor = "BlocOfCodeNode" -> BlocOfCodeNode(kind, n)
      [] ctor = "ExpressionNode" -> ExpressionNode(kind, n)
      [] ctor = "AssignStmtNode" -> AssignStmtNode(kind, n)
      [] ctor = "ClosureExpNode" -> ClosureExpNode(n)
      [] ctor = "BranchStmtNode" -> BranchStmtNode(kind)
      [] ctor = "IncDecStmtNode" -> IncDecStmtNode(kind)
      [] ctor = "GoDferStmtNode" -> GoDferStmtNode(kind)
      [] ctor = "LblGotoCntNode" -> LblGotoCntNode(kind)
      [] ctor = "VarDefStmtNode" -> VarDefStmtNode(kind)
      [] ctor = "TypDefStmtNode" -> TypDefStmtNode(kind)

NoCall == [ctor |-> "none", kind |-> 0, n |-> 0, rec |-> NilSlice]

----------------------------------------------------------------------------
(* The program: the store is built, then Code renders it from the root *)

\* capacities a build may give []byte("XXXXXXXXXX"): exact, or rounded up
\* to the allocator's size class
LiteralCaps == {10, 16}

\* the values of a single write: nil, the empty string, a string, a node
PutValues == {NilSlice, Bytes(""), Bytes("zz")}

\* the offsets of a single write from the base of a node's run
PutOffsets == -2..(MaxRun + 1)

PutKeys(m) == {Add64(OAt(a), U64(j)) : a \in {Zero}, j \in PutOffsets}

\* two empty sets
NoKeys == <<{}, {}>>

\* LookupComments is not running
NoScan ==
    /\ file = <<>>
    /\ pos = 0
    /\ whitespace = FALSE
    /\ cleanline = FALSE
    /\ sawender = FALSE
    /\ EnderSepar = NoKeys

\* the table tab of O grown until it holds every key of the planted trees
RECURSIVE Tabulated(_)
Tabulated(tab) ==
    With(UNION {PlantKeys(t, Zero, tab) : t \in Trees} \ DOMAIN tab, LAMBDA more :
        IF more = {} THEN tab
        ELSE Tabulated([a \in DOMAIN tab \cup more |->
                           IF a \in DOMAIN tab THEN tab[a] ELSE O(a)] @@ <<>>))

\* O tabulated on TreeKeys and on the keys of the planted trees
OTable == Tabulated([a \in TreeKeys |-> O(a)] @@ <<>>)

Init ==
    /\ litcap \in LiteralCaps
    /\ otab = OTable
    /\ ast \in {EmptyStore} \cup {StoreOf(t) : t \in Trees}
    /\ made = NoCall
    /\ pc = "build"
    /\ puts = 0
    /\ trace = <<>>
    /\ NoScan

\* the builder's first write: ast[0] = XNode(kind, n)
MakeNode(ctor, kind, n) ==
    /\ pc = "build"
    /\ DOMAIN ast = {}
    /\ made' = [ctor |-> ctor, kind |-> kind, n |-> n, rec |-> Construct(ctor, kind, n)]
    /\ ast' = Assign(ast, Zero, made'.rec)
    /\ UNCHANGED <<litcap, pc, puts, trace, otab>>
    /\ UNCHANGED scanvars

\* a single write ast[key] = v next to the run of an existing node
Put(key, v) ==
    /\ pc = "build"
    /\ DOMAIN ast # {}
    /\ puts < MaxPuts
    /\ ast' = Assign(ast, key, v)
    /\ puts' = puts + 1
    /\ UNCHANGED <<litcap, made, pc, trace, otab>>
    /\ UNCHANGED scanvars

\* Code(print, ast, 0, 0)
Render ==
    /\ pc = "build"
    /\ trace' = Code(ast, Zero, Zero)
    /\ pc' = "done"
    /\ UNCHANGED <<ast, litcap, made, puts, otab>>
    /\ UNCHANGED scanvars

Next ==
    \/ \E ctor \in Constructors : \E kind \in Kinds(ctor), n \in Counts(ctor) :
            MakeNode(ctor, kind, n)
    \/ \E key \in PutKeys(ast), v \in PutValues : Put(key, v)
    \/ Render

Spec == Init /\ [][Next]_vars

----------------------------------------------------------------------------
(* LookupComments (part_000 51-90): one step per iteration of its loop *)

MaxFileLen == 6

NL == "\n"

\* the bytes of the inputs: line break, space, the bytes the scan compares
\* and one byte that is none of them
Alphabet == {NL, " ", "/", "*", "p", "a", "x"}

\* the value of a byte
Ord(c) ==
    CASE c = NL -> 10
      [] c = " " -> 32
      [] c = "*" -> 42
      [] c = "/" -> 47
      [] c = "a" -> 97
      [] c = "p" -> 112
      [] c = "x" -> 120

Files == UNION {[1..n -> Alphabet] : n \in 0..MaxFileLen}

\* file[i] of the source, the index counted from 0
At(f, i) == f[i + 1]

\* the key of position i
KeyOf(i) == (i + 1) \div 2

\* c, d is the marker // or the marker /*
Slashes(c, d) == c = "/" /\ d = "/"
SlashStar(c, d) == c = "/" /\ d = "*"

\* the two tests that write EnderSepar[0], one after the other
EnderHit(c, d, ws, saw) ==
    \/ Slashes(c, d) /\ ~ws /\ ~saw
    \/ SlashStar(c, d) /\ ~ws /\ ~saw

\* the three tests that write EnderSepar[1], one after the other: a test
\* that succeeds clears cleanline for the next, and c, d matches one at most
SeparHit(c, d, clean) ==
    \/ Slashes(c, d) /\ clean
    \/ SlashStar(c, d) /\ clean
    \/ c = "p" /\ d = "a" /\ clean

\* s with key k added when hit holds
AddIf(s, hit, k) == IF hit THEN s \cup {k} ELSE s

ScanInit ==
    /\ file \in Files
    /\ pos = 0
    /\ whitespace = FALSE
    /\ cleanline = FALSE
    /\ sawender = FALSE
    /\ EnderSepar = NoKeys
    /\ ast = EmptyStore
    /\ litcap = 10
    /\ made = NoCall
    /\ pc = "scan"
    /\ puts = 0
    /\ trace = <<>>
    /\ otab = <<>>

\* an iteration with c == '\n'
ScanNewline ==
    /\ pc = "scan"
    /\ pos + 1 < Len(file)
    /\ At(file, pos) = NL
    /\ cleanline' = (cleanline \/ whitespace)
    /\ whitespace' = TRUE
    /\ sawender' = FALSE
    /\ pos' = pos + 1
    /\ UNCHANGED <<file, EnderSepar>>
    /\ UNCHANGED codevars

\* an iteration with any other byte c, followed by d
ScanByte ==
    /\ pc = "scan"
    /\ pos + 1 < Len(file)
    /\ At(file, pos) # NL
    /\ LET c == At(file, pos)
           d == At(file, pos + 1)
           ender == EnderHit(c, d, whitespace, sawender)
           separ == SeparHit(c, d, cleanline)
       IN  /\ EnderSepar' = <<AddIf(EnderSepar[1], ender, KeyOf(pos)),
                              AddIf(EnderSepar[2], separ, KeyOf(pos))>>
           /\ sawender' = (sawender \/ ender)
           /\ whitespace' = (whitespace /\ ~(Ord(c) > 32))
           /\ cleanline' = (cleanline /\ ~separ /\ ~(Ord(c) > 32))
    /\ pos' = pos + 1
    /\ UNCHANGED file
    /\ UNCHANGED codevars

ScanNext == ScanNewline \/ ScanByte

ScanSpec == ScanInit /\ [][ScanNext]_vars

----------------------------------------------------------------------------
(* Reading a trace *)

Done == pc = "done"

Positions(t) == 1..Len(t)

\* the nodes Code was called on
CalledNodes(t) == {t[p].node : p \in {q \in Positions(t) : t[q].kind = "call"}}

\* the keys Code was called on from the loop of node a, in order
ChildCalls(t, a) ==
    LET c == SelectSeq(Tail(t), LAMBDA e : e.kind = "call" /\ e.from = a)
    IN  [k \in 1..Len(c) |-> c[k].node]

\* the strings node a printed itself, in order
OwnPrints(t, a) ==
    LET c == SelectSeq(t, LAMBDA e : e.kind = "print" /\ e.node = a)
    IN  [k \in 1..Len(c) |-> c[k].s]

\* the least index i with O(a)+i absent, counted from i on
RECURSIVE RunFrom(_, _, _)
RunFrom(m, a, i) ==
    IF Poke(m, Add64(OAt(a), U64(i))) THEN RunFrom(m, a, i + 1) ELSE i

RunLen(m, a) == RunFrom(m, a, 0)

Child(m, a, i) == Get(m, Add64(OAt(a), U64(i)))

RunKeys(m, a) == [k \in 1..RunLen(m, a) |-> Add64(OAt(a), U64(k - 1))]

\* key present with an empty or null payload
ExplicitEmpty(v) == v.len = 0

----------------------------------------------------------------------------
(* C1 *)

\* C1: for every store and every node a Code is called on, the calls made
\* from a's loop are exactly the keys O(a)+0 .. O(a)+n-1, in order and once
\* each, n being the least index with an absent key; no key at or beyond
\* the first absent one is rendered.
C1_RunRenderedOnce ==
    Done => \A a \in CalledNodes(trace) : ChildCalls(trace, a) = RunKeys(ast, a)

\* the same, for the runs Code completes without a run-time panic
C1_RunRenderedOnceUnlessPanic ==
    (Done /\ ~Panicked(trace)) =>
        \A a \in CalledNodes(trace) : ChildCalls(trace, a) = RunKeys(ast, a)

----------------------------------------------------------------------------
(* C2 *)

\* C2: a child whose key is present with an empty or nil payload prints
\* nothing itself, does not make Code fail, and does not end the run: the
\* siblings after it are rendered up to the first absent key.
C2_ExplicitEmptyContinues ==
    Done => \A p \in Positions(trace) :
                (p > 1 /\ trace[p].kind = "call" /\ ExplicitEmpty(Get(ast, trace[p].node))) =>
                    /\ OwnPrints(trace, trace[p].node) = <<>>
                    /\ ~Panicked(trace)
                    /\ ChildCalls(trace, trace[p].from) = RunKeys(ast, trace[p].from)

\* the same for the nil payload alone
C2_NilContinues ==
    Done => \A p \in Positions(trace) :
                (p > 1 /\ trace[p].kind = "call" /\ Get(ast, trace[p].node) = NilSlice
                 /\ ~Panicked(trace)) =>
                    /\ OwnPrints(trace, trace[p].node) = <<>>
                    /\ ChildCalls(trace, trace[p].from) = RunKeys(ast, trace[p].from)

----------------------------------------------------------------------------
(* C3 *)

Families ==
    {RootMatter, FileMatter, PackageDef, ImportStmt, ImportsDef, TypedIdent, RootOfType,
     TypDefStmt, StructType, BranchStmt, GoDferStmt, ReturnStmt, IncDecStmt, VarDefStmt,
     LblGotoCnt, IfceTypExp, CommentRow, Expression, BlocOfCode, ToplevFunc, AssignStmt,
     ClosureExp, IfceMethod}

\* the family a constructor carves its records from
CategoryOf(ctor) ==
    CASE ctor = "ToplevFuncNode" -> ToplevFunc
      [] ctor = "BlocOfCodeNode" -> BlocOfCode
      [] ctor = "ExpressionNode" -> Expression
      [] ctor = "AssignStmtNode" -> AssignStmt
      [] ctor = "ClosureExpNode" -> ClosureExp
      [] ctor = "BranchStmtNode" -> BranchStmt
      [] ctor = "IncDecStmtNode" -> IncDecStmt
      [] ctor = "GoDferStmtNode" -> GoDferStmt
      [] ctor = "LblGotoCntNode" -> LblGotoCnt
      [] ctor = "VarDefStmtNode" -> VarDefStmt
      [] ctor = "TypDefStmtNode" -> TypDefStmt

\* the constructors with a Slots argument decoded from the capacity, and
\* the TotalCount constant of their family
Slotted == {"BlocOfCodeNode", "ExpressionNode", "AssignStmtNode"}

TotalCount(ctor) ==
    CASE ctor = "BlocOfCodeNode" -> BlocOfCodeTotalCount
      [] ctor = "ExpressionNode" -> ExpressionTotalCount
      [] ctor = "AssignStmtNode" -> AssignStmtTotalCount

\* the variant a constructor call passes in: the count of ClosureExpNode,
\* the receiver flag of ToplevFuncNode, the kind of the others
VariantOf(call) == IF call.ctor = "ClosureExpNode" THEN call.n ELSE call.kind

\* a string: a non-empty heap-allocated value
Leaf(v) == v.ptr = Bytes("").ptr /\ v.len > 0

\* C3: for every constructor and every in-range argument, Which of the
\* record built is the constructor's family and no other family, the
\* length of the record minus one is the variant passed in and, for
\* BlocOfCode, Expression and AssignStmt, the capacity minus the family's
\* TotalCount is the Slots passed in; Which is nil for a string and for nil.
C3_TagRoundTrip ==
    /\ made.ctor \in Constructors =>
            /\ Which(made.rec) = CategoryOf(made.ctor)
            /\ \A f \in Families \ {CategoryOf(made.ctor)} : Which(made.rec) # f
            /\ made.rec.len - 1 = VariantOf(made)
            /\ made.ctor \in Slotted => made.rec.cap - TotalCount(made.ctor) = made.n
    /\ \A key \in DOMAIN ast :
            (Leaf(ast[key]) \/ ast[key] = NilSlice) => Which(ast[key]) = NilSlice

\* ExpressionNode(ExpressionOutChan, MaxSlots) was built and decoded
C3_Witness ==
    /\ made.ctor = "ExpressionNode"
    /\ made.kind = ExpressionTotalCount - 1
    /\ made.n = MaxSlots
    /\ Which(ast[Zero]) = Expression

----------------------------------------------------------------------------
(* C4 *)

Slotless == {"BranchStmtNode", "IncDecStmtNode", "GoDferStmtNode", "LblGotoCntNode",
             "VarDefStmtNode", "TypDefStmtNode", "ClosureExpNode"}

\* C4 as stated: a record built by the constructor of a family without a
\* Slots argument has capacity equal to its length.
C4_CapEqualsLen ==
    made.ctor \in Slotless => made.rec.cap = made.rec.len

\* C4: a record built by the constructor of a family without a Slots
\* argument has the capacity of the family buffer it is carved from, which
\* is at least its length.
C4_CapOfFamily ==
    made.ctor \in Slotless =>
        /\ made.rec.cap = CategoryOf(made.ctor).cap
        /\ made.rec.cap >= made.rec.len

\* BranchStmtNode(BranchStmtGoto) was built
C4_Witness ==
    /\ made.ctor = "BranchStmtNode"
    /\ made.kind = BranchStmtGoto
    /\ ast[Zero] = made.rec

----------------------------------------------------------------------------
(* C5 *)

\* the positions where node a printed s itself
PrintsOf(t, a, s) ==
    {p \in Positions(t) : t[p].kind = "print" /\ t[p].node = a /\ t[p].s = s}

\* the positions of the calls made from the loop of node a
CallsFrom(t, a) ==
    {p \in Positions(t) : p > 1 /\ t[p].kind = "call" /\ t[p].from = a}

\* the BlocOfCode records Code was called on
Blocks(t, m) ==
    {a \in CalledNodes(t) : Get(m, a).len > 0 /\ Which(Get(m, a)) = BlocOfCode}

HeaderSlots(v) == v.cap - BlocOfCodeTotalCount

\* the opening brace of a: once; in the prefix right after the keyword (or
\* the call, for a block without keyword) when a has no header slot, else
\* in the pass of child h-1, after that child and before child h
OpensOnce(t, m, a) ==
    LET h == HeaderSlots(Get(m, a))
    IN  /\ Cardinality(PrintsOf(t, a, "{")) = 1
        /\ \A p \in PrintsOf(t, a, "{") :
              IF h = 0
              THEN /\ t[p].i = PrefixPhase
                   /\ t[p - 1].node = a
                   /\ t[p - 1].kind = "call" \/ t[p - 1].i = PrefixPhase
              ELSE /\ t[p].i = h - 1
                   /\ \E c \in CallsFrom(t, a) :
                         /\ t[c].node = Add64(OAt(a), U64(h - 1))
                         /\ c < p
                         /\ \A q \in (c + 1)..(p - 1) : t[q].node # a
                   /\ \A c \in CallsFrom(t, a) :
                         t[c].node = Add64(OAt(a), U64(h)) => p < c

\* the closing brace of a: once, after every child of the run was rendered
ClosesOnce(t, m, a) ==
    /\ Cardinality(PrintsOf(t, a, "}")) = 1
    /\ ChildCalls(t, a) = RunKeys(m, a)
    /\ \A p \in PrintsOf(t, a, "}") :
          /\ t[p].i = uint64big
          /\ \A c \in CallsFrom(t, a) : c < p

BracesOf(t, m, a) ==
    LET v == Get(m, a)
    IN  IF v.len - 1 < BlocOfCodeCase
        THEN RunLen(m, a) >= HeaderSlots(v) => (OpensOnce(t, m, a) /\ ClosesOnce(t, m, a))
        ELSE PrintsOf(t, a, "{") = {} /\ PrintsOf(t, a, "}") = {}

\* C5: a BlocOfCode record of a variant below BlocOfCodeCase with h header
\* slots and a run of at least h children prints exactly one opening
\* brace, right after the keyword when h = 0 and otherwise after child h-1
\* and before child h, and exactly one closing brace, after the last
\* child; a record of variant Case, Default, None, Communicate or
\* CommunicateDefault prints no brace.
C5_BlockBraces ==
    Done => \A a \in Blocks(trace, ast) : BracesOf(trace, ast, a)

\* the same, for the runs Code completes without a run-time panic
C5_BlockBracesUnlessPanic ==
    (Done /\ ~Panicked(trace)) => \A a \in Blocks(trace, ast) : BracesOf(trace, ast, a)

----------------------------------------------------------------------------
(* C6 *)

PrintEvents(t) == SelectSeq(t, LAMBDA e : e.kind = "print")

\* v is a BlocOfCode record of the given variant with h header slots
IsBlock(v, variant, h) ==
    /\ v.len > 0
    /\ Which(v) = BlocOfCode
    /\ v.len - 1 = variant
    /\ HeaderSlots(v) = h

\* children i, i+1, i+2 of block a are if c1 {..} else, if c2 {..} else, {..}
\* and are statements of the body of a
ChainAt(m, a, i) ==
    /\ Get(m, a).len > 0
    /\ Which(Get(m, a)) = BlocOfCode
    /\ i >= HeaderSlots(Get(m, a))
    /\ IsBlock(Child(m, a, i), BlocOfCodeIfElse, 1)
    /\ IsBlock(Child(m, a, i + 1), BlocOfCodeIfElse, 1)
    /\ IsBlock(Child(m, a, i + 2), BlocOfCodePlain, 0)

\* the chains of the store whose three blocks Code was called on
RenderedChains(t, m) ==
    {c \in CalledNodes(t) \X (0..MaxRun) :
        /\ ChainAt(m, c[1], c[2])
        /\ Add64(OAt(c[1]), U64(c[2] + 2)) \in CalledNodes(t)}

\* block b printed each brace once
BracesOnce(t, b) ==
    Cardinality(PrintsOf(t, b, "{")) = 1 /\ Cardinality(PrintsOf(t, b, "}")) = 1

\* in the printed events e, the closing brace of block b is followed by
\* ' else' and then by the opening token str of block nxt, after the
\* events gap of the parent
ElseThen(e, b, gap, nxt, str) ==
    \E q \in 1..Len(e) :
        /\ e[q].node = b /\ e[q].s = "}"
        /\ q + 2 + Len(gap) <= Len(e)
        /\ e[q + 1].node = b /\ e[q + 1].s = " else"
        /\ \A k \in 1..Len(gap) : e[q + 1 + k] = gap[k]
        /\ e[q + 2 + Len(gap)].node = nxt /\ e[q + 2 + Len(gap)].s = str

\* the chain at child i of a, with the parent printing gap(k) after child k
ChainRendered(t, m, a, i, gap(_)) ==
    LET e == PrintEvents(t)
        b1 == Add64(OAt(a), U64(i))
        b2 == Add64(OAt(a), U64(i + 1))
        b3 == Add64(OAt(a), U64(i + 2))
    IN  /\ ElseThen(e, b1, gap(i), b2, "if ")
        /\ ElseThen(e, b2, gap(i + 1), b3, "{")
        /\ BracesOnce(t, b1) /\ BracesOnce(t, b2) /\ BracesOnce(t, b3)

\* C6 as stated: in a chain if c1 {..} else if c2 {..} else {..} the
\* closing brace of each IfElse block is followed by ' else' and then
\* directly by the 'if ' or '{' of the next block; no brace is printed
\* twice.
C6_ElseDirectly ==
    Done => \A c \in RenderedChains(trace, ast) :
                ChainRendered(trace, ast, c[1], c[2], LAMBDA k : <<>>)

\* C6: in such a chain the closing brace of each IfElse block is followed
\* by ' else', then by the line break the parent block prints after every
\* statement of its body, and then by the 'if ' or '{' of the next block;
\* no brace is printed twice.
C6_ElseThenLineBreak ==
    Done => \A c \in RenderedChains(trace, ast) :
                ChainRendered(trace, ast, c[1], c[2],
                              LAMBDA k : <<PrintEv(c[1], k, "")>>)

\* the chain at the head of the root block was rendered without a panic
C6_Witness ==
    /\ Done
    /\ <<Zero, 0>> \in RenderedChains(trace, ast)
    /\ ~Panicked(trace)

----------------------------------------------------------------------------
(* C7 *)

\* v is an Expression record of kind op with l slots
IsExpression(v, op, l) ==
    /\ v.len > 0
    /\ Which(v) = Expression
    /\ v.len - 1 = op
    /\ v.cap - ExpressionTotalCount = l

\* the key at a holds key: value, both strings
IsKeyVal(m, a) ==
    /\ IsExpression(Get(m, a), ExpressionKeyVal, 2)
    /\ RunLen(m, a) = 2
    /\ Leaf(Child(m, a, 0)) /\ Leaf(Child(m, a, 1))

\* the key at a holds a composite literal: a type and n key-value elements
IsKeyedComposite(m, a, n) ==
    /\ IsExpression(Get(m, a), ExpressionComposite, n + 1)
    /\ RunLen(m, a) = n + 1
    /\ Leaf(Child(m, a, 0))
    /\ \A k \in 1..n : IsKeyVal(m, Add64(OAt(a), U64(k)))

\* the text key sep value of element k of the literal at a
ElementText(m, a, k, sep) ==
    LET e == Add64(OAt(a), U64(k))
    IN  String(Child(m, e, 0)) \o sep \o String(Child(m, e, 1))

\* {k1 sep v1, k2 sep v2, k3 sep v3}
BodyText(m, a, sep) ==
    "{" \o ElementText(m, a, 1, sep) \o ", " \o ElementText(m, a, 2, sep) \o ", "
        \o ElementText(m, a, 3, sep) \o "}"

\* the least index of token s in the printed sequence p, 0 if there is none
IndexOf(p, s) ==
    IF \E k \in 1..Len(p) : p[k] = s
    THEN CHOOSE k \in 1..Len(p) : p[k] = s /\ \A j \in 1..(k - 1) : p[j] # s
    ELSE 0

\* the printed text from the first opening brace to the first closing brace
PrintedBody(t) ==
    LET p == Printed(t)
    IN  Concat(SubSeq(p, IndexOf(p, "{"), IndexOf(p, "}")))

\* C7 as stated: a composite literal of a type and three key-value
\* elements prints its body as {k1: v1, k2: v2, k3: v3}, the key and the
\* value separated by colon-space.
C7_ColonSpace ==
    (Done /\ IsKeyedComposite(ast, Zero, 3)) =>
        PrintedBody(trace) = BodyText(ast, Zero, ": ")

\* C7: a composite literal of a type and three key-value elements prints
\* its body as {k1:v1, k2:v2, k3:v3}: the elements are separated by
\* comma-space, a key and its value by a colon alone, and no comma
\* precedes the closing brace.
C7_ColonOnly ==
    (Done /\ IsKeyedComposite(ast, Zero, 3)) =>
        /\ IndexOf(Printed(trace), "{") > 0
        /\ PrintedBody(trace) = BodyText(ast, Zero, ":")

\* the literal T{k1:v1, k2:v2, k3:v3} was rendered
C7_Witness ==
    /\ Done
    /\ IsKeyedComposite(ast, Zero, 3)
    /\ String(Child(ast, Add64(OAt(Zero), U64(3)), 1)) = "v3"
    /\ ~Panicked(trace)

----------------------------------------------------------------------------
(* C8 *)

\* the position of the call of node x, and the node that called it
CallOf(t, x) == CHOOSE c \in Positions(t) : t[c].kind = "call" /\ t[c].node = x

ParentOf(t, x) == t[CallOf(t, x)].from

Nowhere == <<>>

\* the child of a whose subtree holds node x # a, Nowhere if there is none
RECURSIVE TopChild(_, _, _, _)
TopChild(t, a, x, fuel) ==
    IF fuel = 0 \/ ParentOf(t, x) = x THEN Nowhere
    ELSE IF ParentOf(t, x) = a THEN x
    ELSE TopChild(t, a, ParentOf(t, x), fuel - 1)

\* the index of child key x in the run of a, as called
IndexIn(t, a, x) ==
    (CHOOSE k \in 1..Len(ChildCalls(t, a)) : ChildCalls(t, a)[k] = x) - 1

\* where event p stands in the rendering of a: 0 the call of a, 1 its
\* prefix, 2i+2 the subtree of child i, 2i+3 what a prints after child i,
\* then what a prints after the loop; -1 for an event outside a's subtree
Rank(t, a, p) ==
    IF t[p].node = a
    THEN IF t[p].kind = "call" THEN 0
         ELSE IF t[p].i = PrefixPhase THEN 1
         ELSE IF t[p].i = uint64big THEN 2 * Len(ChildCalls(t, a)) + 2
         ELSE 2 * t[p].i + 3
    ELSE IF TopChild(t, a, t[p].node, Len(t)) = Nowhere THEN -1
    ELSE 2 * IndexIn(t, a, TopChild(t, a, t[p].node, Len(t))) + 2

\* no node is rendered twice
NoRevisit(t) ==
    \A p, q \in Positions(t) :
        (p < q /\ t[p].kind = "call" /\ t[q].kind = "call") => t[p].node # t[q].node

\* the children of a are rendered from index 0 upwards, one key after another
LeftToRight(t, a) ==
    \A k \in 1..Len(ChildCalls(t, a)) : ChildCalls(t, a)[k] = Add64(OAt(a), U64(k - 1))

\* the events of the subtree of a start with the call of a and come in
\* the order prefix, child 0, after child 0, child 1, ..., after the loop
DepthFirst(t, a) ==
    \A p \in 1..(Len(t) - 1) :
        /\ (Rank(t, a, p) >= 0 /\ Rank(t, a, p + 1) >= 0) => Rank(t, a, p) <= Rank(t, a, p + 1)
        /\ (Rank(t, a, p) < 0 /\ Rank(t, a, p + 1) >= 0) => Rank(t, a, p + 1) = 0

\* the text of child i of a: what the subtree of child i prints and, for a
\* string child, the prints of a that hand out the string stored in it
TextOfChild(t, m, a, i) ==
    {p \in Positions(t) :
        /\ t[p].kind = "print"
        /\ \/ /\ t[p].node # a
              /\ TopChild(t, a, t[p].node, Len(t)) = Add64(OAt(a), U64(i))
           \/ /\ t[p].node = a
              /\ Leaf(Child(m, a, i))
              /\ t[p].s = String(Child(m, a, i))}

\* the positions where a printed its prefix, and where its subtree printed
PrefixPrints(t, a) ==
    {p \in Positions(t) : t[p].kind = "print" /\ t[p].node = a /\ t[p].i = PrefixPhase}

SubtreePrints(t, a) ==
    {p \in Positions(t) :
        /\ t[p].kind = "print"
        /\ t[p].node # a
        /\ TopChild(t, a, t[p].node, Len(t)) # Nowhere}

\* C8 as stated: the prefix of a node is printed before any text of its
\* children, all text of child i (its stored text and what its subtree
\* prints) before any text of child i+1, and no child is rendered twice,
\* the children being taken left to right.
C8_ChildTextInOrder ==
    Done =>
        /\ NoRevisit(trace)
        /\ \A a \in CalledNodes(trace) :
              /\ LeftToRight(trace, a)
              /\ \A p \in PrefixPrints(trace, a) : \A q \in SubtreePrints(trace, a) : p < q
              /\ \A i \in 0..(Len(ChildCalls(trace, a)) - 1) :
                    \A j \in (i + 1)..(Len(ChildCalls(trace, a)) - 1) :
                        \A p \in TextOfChild(trace, ast, a, i) :
                            \A q \in TextOfChild(trace, ast, a, j) : p < q

\* C8: no node is rendered twice and the children of a node are rendered
\* left to right; the prefix of a node is printed before anything its
\* children's subtrees print, and everything the subtree of child i
\* prints, then what the node prints in the pass of child i, comes before
\* anything the subtree of child i+1 prints.  (The string stored in a
\* child is printed by the parent, in the pass the parent chooses.)
C8_DepthFirstOrder ==
    Done =>
        /\ NoRevisit(trace)
        /\ \A a \in CalledNodes(trace) : LeftToRight(trace, a) /\ DepthFirst(trace, a)

\* a function with a receiver was rendered: the name stored in child 0 is
\* printed after the receiver, which is child 1
C8_Witness ==
    /\ Done
    /\ ~Panicked(trace)
    /\ Get(ast, Zero).len = 2
    /\ Which(Get(ast, Zero)) = ToplevFunc
    /\ \E p \in TextOfChild(trace, ast, Zero, 0) :
          \E q \in TextOfChild(trace, ast, Zero, 1) : q < p

----------------------------------------------------------------------------
(* C9 *)

\* m without the key k
Without(m, k) == [x \in DOMAIN m \ {k} |-> m[x]]

\* the populated keys that lie in the run of no rendered node
StrayKeys(t, m) == DOMAIN m \ CalledNodes(t)

\* C9: the output depends only on the records of the rendered nodes: a
\* store with one more record at an address outside every rendered run,
\* such as O(a)-1 or O(a)-2, gives the same output as the store without it.
C9_StrayKeyIgnored ==
    (Done /\ ~Panicked(trace)) =>
        \A k \in StrayKeys(trace, ast) :
            Printed(Code(Without(ast, k), Zero, Zero)) = Printed(trace)

----------------------------------------------------------------------------
(* C10 *)

\* the key at a holds a function declared with no arguments: a name, a
\* receiver when the record says so, results, and possibly a body
IsZeroArgFunc(m, a) ==
    LET node == Get(m, a)
        recv == node.len - 1
        n == RunLen(m, a)
    IN  /\ node.len \in {1, 2}
        /\ Which(node) = ToplevFunc
        /\ node.cap = node.len
        /\ n >= 1 + recv
        /\ Leaf(Child(m, a, 0))
        /\ recv = 1 => Is(Child(m, a, 1), TypedIdent)
        /\ \A k \in (1 + recv)..(n - 1) :
              \/ Is(Child(m, a, k), TypedIdent)
              \/ k = n - 1 /\ Is(Child(m, a, k), BlocOfCode)

\* in the printed events e, node a prints str once, and right after it
\* either '()' or '(' and a token that starts with ')'
BracketsFollow(e, a, str) ==
    /\ Cardinality({k \in 1..Len(e) : e[k].node = a /\ e[k].s = str}) = 1
    /\ \A k \in 1..Len(e) :
          (e[k].node = a /\ e[k].s = str) =>
              /\ k + 1 <= Len(e)
              /\ e[k + 1].node = a
              /\ \/ e[k + 1].s = "()"
                 \/ /\ e[k + 1].s = "("
                    /\ k + 2 <= Len(e)
                    /\ e[k + 2].node = a
                    /\ e[k + 2].s \in {")", ")("}

\* C10: a ToplevFunc record with zero declared arguments, with or without
\* a receiver, results and a body, prints the function name exactly once
\* and an empty bracket pair right after it.
C10_EmptyParameterList ==
    Done => \A a \in CalledNodes(trace) :
                IsZeroArgFunc(ast, a) =>
                    BracketsFollow(PrintEvents(trace), a, String(Child(ast, a, 0)))

\* func (r R) f()(int){} was rendered: receiver, one result and a body
C10_Witness ==
    /\ Done
    /\ ~Panicked(trace)
    /\ IsZeroArgFunc(ast, Zero)
    /\ Get(ast, Zero).len = 2
    /\ RunLen(ast, Zero) = 4
    /\ Is(Child(ast, Zero, 3), BlocOfCode)

----------------------------------------------------------------------------
(* C11 *)

\* the key at a holds a call of l slots with exactly l children, none empty
IsCall(m, a, l) ==
    /\ IsExpression(Get(m, a), ExpressionCall, l)
    /\ RunLen(m, a) = l
    /\ \A k \in 0..(l - 1) : Child(m, a, k).len > 0

\* the strings node a printed in the pass of loop index i, in order
PassPrints(t, a, i) ==
    LET c == SelectSeq(t, LAMBDA e : e.kind = "print" /\ e.node = a /\ e.i = i)
    IN  [k \in 1..Len(c) |-> c[k].s]

\* what a call of l slots prints after child k (counted from 0)
CallToken(l, k) ==
    IF l = 1 THEN "()"
    ELSE IF k = 0 THEN "("
    ELSE IF k = l - 1 THEN ")"
    ELSE ","

\* the number of strings of the set toks among the strings node a printed
CountOf(t, a, toks) ==
    Cardinality({p \in Positions(t) :
                    t[p].kind = "print" /\ t[p].node = a /\ t[p].s \in toks})

CallRendered(t, m, a, l) ==
    /\ PassPrints(t, a, PrefixPhase) = <<>>
    /\ \A k \in 0..(l - 1) :
          PassPrints(t, a, k) = StringChild(Child(m, a, k)) \o <<CallToken(l, k)>>
    /\ CountOf(t, a, {"(", "()"}) = 1
    /\ CountOf(t, a, {")", "()", "...)"}) = 1
    /\ CountOf(t, a, {","}) = (IF l >= 3 THEN l - 2 ELSE 0)
    /\ CountOf(t, a, {", "}) = 0

\* C11: an ExpressionCall record with l slots and exactly l children prints
\* nothing before its first child and, after child k, the child's stored
\* text if it is a string and then: '()' when l = 1; '(' after the callee,
\* one ',' after every argument but the last and ')' after the last
\* argument when l >= 2.  The call node prints one opening and one closing
\* bracket and no separator after the last argument.
C11_CallBrackets ==
    (Done /\ ~Panicked(trace)) =>
        \A a \in CalledNodes(trace) : \A l \in 1..(MaxCallArgs + 1) :
            IsCall(ast, a, l) => CallRendered(trace, ast, a, l)

\* f(b, c, d) was rendered: a call of four slots, two commas
C11_Witness ==
    /\ Done
    /\ ~Panicked(trace)
    /\ IsCall(ast, Zero, MaxCallArgs + 1)
    /\ PassPrints(trace, Zero, 1) = <<"b", ",">>
    /\ PassPrints(trace, Zero, MaxCallArgs) = <<"d", ")">>

----------------------------------------------------------------------------
(* C12 *)

\* the key at a holds a comment row whose first child is a string
IsComment(m, a) ==
    /\ Get(m, a).len > 0
    /\ Which(Get(m, a)) = CommentRow
    /\ Leaf(Child(m, a, 0))

\* the record of a comment row of the given variant
CommentRowOf(variant) == Slice2(CommentRow, variant + 1)

\* what Code prints when called on a in store m
Rendering(m, a, parent) == Printed(Code(m, a, parent))

\* what a comment row of the given variant prints: a line break first if
\* the variant is CommentRowSeparate, then the text
CommentText(variant, text) ==
    IF variant = CommentRowSeparate THEN <<"", text>> ELSE <<text>>

\* C12: Code called on a CommentRow record whose first child is a string
\* prints that string once and nothing else but, for the variant
\* CommentRowSeparate and for no other, one line break right before it; the
\* renderings of the same text tagged end-of-line and tagged separate
\* differ by that line break alone.
C12_CommentVerbatim ==
    Done => \A a \in CalledNodes(trace) :
                IsComment(ast, a) =>
                    /\ OwnPrints(trace, a)
                           = CommentText(Get(ast, a).len - 1, String(Child(ast, a, 0)))
                    /\ Rendering(ast, a, ParentOf(trace, a)) = OwnPrints(trace, a)
                    /\ Rendering(Assign(ast, a, CommentRowOf(CommentRowSeparate)), a,
                                 ParentOf(trace, a))
                           = <<"">> \o Rendering(Assign(ast, a, CommentRowOf(CommentRowEnder)), a,
                                                 ParentOf(trace, a))

\* a comment tagged separate was rendered inside a file, after an import
C12_Witness ==
    /\ Done
    /\ ~Panicked(trace)
    /\ \E a \in CalledNodes(trace) :
          /\ a # Zero
          /\ IsComment(ast, a)
          /\ Get(ast, a).len - 1 = CommentRowSeparate
          /\ OwnPrints(trace, a) = <<"", "// c">>

----------------------------------------------------------------------------
(* Reading a scanned file *)

\* the loop of LookupComments has ended
Scanned == pc = "scan" /\ ~(pos + 1 < Len(file))

\* position i of f starts a marker: // or /*
Marker(f, i) ==
    /\ i >= 0
    /\ i + 1 < Len(f)
    /\ Slashes(At(f, i), At(f, i + 1)) \/ SlashStar(At(f, i), At(f, i + 1))

\* the position where the line of position i starts
RECURSIVE LineStart(_, _)
LineStart(f, i) == IF i = 0 \/ At(f, i - 1) = NL THEN i ELSE LineStart(f, i - 1)

\* a byte that is not whitespace
Solid(c) == c \notin {NL, " "}

\* a non-whitespace byte stands before position i on its line
Preceded(f, i) == \E j \in LineStart(f, i)..(i - 1) : Solid(At(f, j))

\* the first marker of its line
FirstMarker(f, i) ==
    Marker(f, i) /\ \A j \in LineStart(f, i)..(i - 1) : ~Marker(f, j)

\* the line before the line of position i exists and holds whitespace only
BlankBefore(f, i) ==
    /\ LineStart(f, i) > 0
    /\ \A j \in LineStart(f, LineStart(f, i) - 1)..(LineStart(f, i) - 2) : ~Solid(At(f, j))

----------------------------------------------------------------------------
(* C13 *)

\* C13: after the scan of any input, for every line, the key of the first
\* // or /* marker of the line is in the end-of-line set EnderSepar[0]
\* exactly when a non-whitespace byte stands before the marker on the line.
C13_EnderIffPreceded ==
    Scanned => \A i \in 0..(Len(file) - 1) :
                   FirstMarker(file, i) => (KeyOf(i) \in EnderSepar[1] <=> Preceded(file, i))

\* one direction: the first marker of a line with a non-whitespace byte
\* before it has its key in the end-of-line set
C13_PrecededIsEnder ==
    Scanned => \A i \in 0..(Len(file) - 1) :
                   (FirstMarker(file, i) /\ Preceded(file, i)) => KeyOf(i) \in EnderSepar[1]

----------------------------------------------------------------------------
(* C14 *)

\* C14: after the scan of any input, the key of a // or /* marker is in
\* the separate set EnderSepar[1] exactly when the marker is the first
\* non-whitespace content of its line and a blank line lies directly
\* before that line.
C14_SeparIffAfterBlank ==
    Scanned => \A i \in 0..(Len(file) - 1) :
                   Marker(file, i) =>
                       (KeyOf(i) \in EnderSepar[2]
                           <=> (~Preceded(file, i) /\ BlankBefore(file, i)))

----------------------------------------------------------------------------
(* C15 *)

\* a record of a family: built by a constructor or a family value itself
Structural(v) == v.len > 0 /\ Which(v) # NilSlice

\* every populated key holds nil, a non-empty string or a structural record
WellFormed(m) ==
    \A key \in DOMAIN m : m[key] = NilSlice \/ Leaf(m[key]) \/ Structural(m[key])

\* the loop indices of the passes node a completed, in order
PassesOf(t, a) ==
    LET c == SelectSeq(t, LAMBDA e : e.kind = "pass" /\ e.node = a)
    IN  [k \in 1..Len(c) |-> c[k].i]

\* the passes of a loop over a run of n children: 0 .. n-1, then the sentinel
PassesOver(n) == [k \in 1..(n + 1) |-> IF k <= n THEN k - 1 ELSE uint64big]

\* C15: on a store whose records are nil, non-empty strings or structural
\* records (the stores here are trees, so no address lies in the run of
\* one of its descendants), Code returns without a panic: the loop of
\* every node it is called on renders the children up to the first absent
\* key, makes one last pass with the sentinel index and ends, also where
\* a child the grammar requires is absent.
C15_TerminatesNormally ==
    (Done /\ WellFormed(ast)) =>
        /\ ~Panicked(trace)
        /\ trace[Len(trace)] = PassEv(Zero, uint64big)
        /\ \A a \in CalledNodes(trace) :
              /\ ChildCalls(trace, a) = RunKeys(ast, a)
              /\ PassesOf(trace, a) = PassesOver(RunLen(ast, a))

\* an if block that declares one header element and has no child was
\* rendered: its loop made the sentinel pass only
C15_Witness ==
    /\ Done
    /\ WellFormed(ast)
    /\ IsBlock(Get(ast, Zero), BlocOfCodeIf, 1)
    /\ RunLen(ast, Zero) = 0
    /\ PassesOf(trace, Zero) = <<uint64big>>

----------------------------------------------------------------------------
(* C16 *)

\* a uint64: four limbs, each in 0 .. 2^16-1
InU64(v) == Len(v) = 4 /\ \A k \in 1..4 : v[k] \in 0..(W - 1)

\* the store is empty: nothing is planted and nothing was built or rendered
Blank == pc = "build" /\ DOMAIN ast = {}

\* O(n) for n = 0, 1, 2^63 and 2^64-1, worked out from the statements of O
\* in 64-bit arithmetic: 8882115565503647203, 13738603025981410947,
\* 16306125003590240582 and 10017675707735882228
OValues ==
    {<<Zero, <<3555, 8144, 40204, 31555>>>>,
     <<<<1, 0, 0, 0>>, <<36483, 29114, 21161, 48809>>>>,
     <<<<0, 0, 0, 32768>>, <<35142, 5660, 65100, 57930>>>>,
     <<<<65535, 65535, 65535, 65535>>, <<14836, 62120, 61178, 35589>>>>}

\* the calls made from the loops, each with its index in the run
ChildAt(t, a, k) == ChildCalls(t, a)[k + 1]

\* C16: O is a total function of the 64-bit addresses that reads and
\* writes no state: on every address of the table it yields a value in
\* 0 .. 2^64-1, the same value on every evaluation, before and after a
\* rendering; multiplication, addition and shift wrap modulo 2^64, so O
\* has the values 64-bit arithmetic gives; child i of address a is at
\* (O(a)+i) mod 2^64, also for the sentinel index 2^64-2.
C16_OPureTotal ==
    /\ Blank =>
          /\ \A a \in DOMAIN otab :
                /\ InU64(O(a))
                /\ O(a) = otab[a]
                /\ InU64(Add64(otab[a], U64(uint64big)))
                /\ Add64(Add64(otab[a], U64(uint64big)), U64(2)) = otab[a]
          /\ \A v \in OValues : O(v[1]) = v[2]
    /\ Done =>
          /\ O(Zero) = otab[Zero]
          /\ \A a \in CalledNodes(trace) :
                \A k \in 0..(Len(ChildCalls(trace, a)) - 1) :
                    /\ ChildAt(trace, a, k) = Add64(OAt(a), U64(k))
                    /\ InU64(ChildAt(trace, a, k))

\* a tree of depth three was rendered: a child of a child of the root was
\* found at O(O(0)+0)+0, and O(0) is 8882115565503647203
C16_Witness ==
    /\ Done
    /\ otab[Zero] = <<3555, 8144, 40204, 31555>>
    /\ Len(ChildCalls(trace, Zero)) > 0
    /\ Len(ChildCalls(trace, ChildAt(trace, Zero, 0))) > 0
    /\ ChildAt(trace, ChildAt(trace, Zero, 0), 0) = Add64(O(Add64(O(Zero), U64(0))), U64(0))

----------------------------------------------------------------------------
(* C18 *)

\* the key at a holds an assignment of kind op with l slots and exactly l
\* children, none empty
IsAssign(m, a, op, l) ==
    /\ Get(m, a).len > 0
    /\ Which(Get(m, a)) = AssignStmt
    /\ Get(m, a).len - 1 = op
    /\ Get(m, a).cap - AssignStmtTotalCount = l
    /\ RunLen(m, a) = l
    /\ \A k \in 0..(l - 1) : Child(m, a, k).len > 0

\* the operator variants: one operator between the two sides, and several
\* left-hand sides before one right-hand side
PlainOps == AssignStmtEqual..AssignStmtShr
MoreOps == AssignStmtMoreEqual..AssignStmtMoreColonEqRange

\* the operator token of a variant
OperatorToken(op) ==
    CASE op \in {AssignStmtEqual, AssignStmtMoreEqual} -> " = "
      [] op \in {AssignStmtColonEq, AssignStmtMoreColonEq} -> " := "
      [] op = AssignStmtMoreEqualRange -> " = range "
      [] op = AssignStmtMoreColonEqRange -> " := range "
      [] op = AssignStmtAndNot -> " &^= "
      [] op = AssignStmtAdd -> " += "
      [] op = AssignStmtSub -> " -= "
      [] op = AssignStmtMul -> " *= "
      [] op = AssignStmtQuo -> " /= "
      [] op = AssignStmtRem -> " %= "
      [] op = AssignStmtAnd -> " &= "
      [] op = AssignStmtOr -> " |= "
      [] op = AssignStmtXor -> " ^= "
      [] op = AssignStmtShl -> " <<= "
      [] op = AssignStmtShr -> " >>= "

\* the child number (counted from 1) the operator follows
OperatorPlace(op, l) == IF op \in PlainOps THEN (l + 1) \div 2 ELSE l - 1

\* what stands in the gap after child number i < l
GapToken(op, l, i) ==
    IF i = OperatorPlace(op, l) THEN OperatorToken(op)
    ELSE IF op \in PlainOps /\ l % 2 = 1 /\ i = (l - 1) \div 2 THEN " "
    ELSE ", "

AssignRendered(t, m, a, op, l) ==
    /\ \A k \in 0..(l - 2) :
          PassPrints(t, a, k) = StringChild(Child(m, a, k)) \o <<GapToken(op, l, k + 1)>>
    /\ CountOf(t, a, {OperatorToken(op)}) = 1

\* C18: an AssignStmt record of an operator variant with l >= 2 slots and
\* exactly l children prints the operator token once: for the variants
\* AssignStmtEqual .. AssignStmtShr right after child number ceil(l/2),
\* for the More variants right after child number l-1, before the last
\* child; in every other gap between two children it prints ', ', except
\* for the single space before the central type, which is the gap after
\* child (l-1)/2 when l is odd and the variant is not a More variant.
C18_OperatorPlacement ==
    (Done /\ ~Panicked(trace)) =>
        \A a \in CalledNodes(trace) : \A op \in PlainOps \cup MoreOps : \A l \in 2..MaxAssign :
            IsAssign(ast, a, op, l) => AssignRendered(trace, ast, a, op, l)

\* a, b T = d, e was rendered: five slots, the type in the middle, the
\* operator after child three
C18_Witness ==
    /\ Done
    /\ ~Panicked(trace)
    /\ IsAssign(ast, Zero, AssignStmtEqual, MaxAssign)
    /\ PassPrints(trace, Zero, 0) = <<"a", ", ">>
    /\ PassPrints(trace, Zero, 1) = <<"b", " ">>
    /\ PassPrints(trace, Zero, 2) = <<"c", " = ">>
    /\ PassPrints(trace, Zero, 3) = <<"d", ", ">>

----------------------------------------------------------------------------
(* C19 *)

\* the Expression records Code was called on
Expressions(t, m) ==
    {a \in CalledNodes(t) : Get(m, a).len > 0 /\ Which(Get(m, a)) = Expression}

SlotsOf(v) == v.cap - ExpressionTotalCount

\* the kinds whose one-operand form starts with a token of its own
UnaryOps ==
    {ExpressionBrackets, ExpressionPlus, ExpressionMinus, ExpressionXor, ExpressionMul,
     ExpressionAnd, ExpressionNot, ExpressionArrow, ExpressionChan, ExpressionInChan,
     ExpressionOutChan}

\* node a printed a unary prefix token before its children
UnaryPrefixTaken(t, m, a) ==
    /\ Get(m, a).len - 1 \in UnaryOps
    /\ PassPrints(t, a, PrefixPhase) # <<>>

\* node a printed a closing brace before its children
ClosedInPrefix(t, a) == \E k \in 1..Len(PassPrints(t, a, PrefixPhase)) :
                           PassPrints(t, a, PrefixPhase)[k] = "}"

SameOperandCount(t, m, a) ==
    /\ Get(m, a).len - 1 \in UnaryOps =>
          (UnaryPrefixTaken(t, m, a) <=> SlotsOf(Get(m, a)) = 1)
    /\ Get(m, a).len - 1 = ExpressionComposed =>
          (ClosedInPrefix(t, a) <=> SlotsOf(Get(m, a)) = 0)

\* C19: for every Expression record, whatever its Slots, the prefix is
\* chosen by the operand count the separators are chosen by: a record of
\* a kind with a unary prefix prints that prefix exactly when Slots = 1,
\* and an ExpressionComposed record prints its closing brace in the
\* prefix exactly when Slots = 0.
C19_SameOperandCount ==
    Done => \A a \in Expressions(trace, ast) : SameOperandCount(trace, ast, a)

\* the same for the records of fewer than 2^8 slots
C19_SameOperandCountInByte ==
    Done => \A a \in Expressions(trace, ast) :
                SlotsOf(Get(ast, a)) < ByteSpan => SameOperandCount(trace, ast, a)

----------------------------------------------------------------------------
(* C20 *)

One == <<1, 0, 0, 0>>

\* the inverses of the two multipliers modulo 2^64, 13700500150304694605
\* and 1615231051170002885, and the number that added to OAdd1 gives 0
OMul1Inv == <<57677, 24600, 62540, 48673>>
OMul2Inv == <<14277, 19243, 29717, 5738>>
OAdd1Neg == <<29855, 32223, 27948, 55974>>

\* the x with x ^ (x >> s) = y, and the x with x ^ (x << s) = y: the
\* iteration x := y ^ (x >> s) from x = y settles s more bits each round
RECURSIVE UnXorShrFrom(_, _, _, _), UnXorShlFrom(_, _, _, _)
UnXorShrFrom(y, x, s, n) ==
    IF n = 0 THEN x
    ELSE With(Xor64(y, Shr64(x, s)), LAMBDA z : UnXorShrFrom(y, z, s, n - 1))

UnXorShlFrom(y, x, s, n) ==
    IF n = 0 THEN x
    ELSE With(Xor64(y, Shl64(x, s)), LAMBDA z : UnXorShlFrom(y, z, s, n - 1))

UnXorShr(y, s) == With(y, LAMBDA v : UnXorShrFrom(v, v, s, 64 \div s + 1))
UnXorShl(y, s) == With(y, LAMBDA v : UnXorShlFrom(v, v, s, 64 \div s + 1))

\* the statements of O undone, last first
UnO(v) ==
    Mul64(Add64(UnXorShr(UnXorShl(UnXorShr(Mul64(UnXorShl(UnXorShr(UnXorShl(v,
        5), 41), 20), OMul2Inv), 4), 37), 21), OAdd1Neg), OMul1Inv)

\* C20: O is injective: any two different addresses have different bases.
\* Every statement of O can be undone (both multipliers have an inverse
\* modulo 2^64, the addition has one, an xor with a shifted copy is
\* undone by iteration), so the address is recovered from its base; on
\* the addresses of the trees no two bases are equal, and no two nodes of
\* a rendering share the base of their runs.
C20_OInjective ==
    /\ Blank =>
          /\ Mul64(OMul1, OMul1Inv) = One
          /\ Mul64(OMul2, OMul2Inv) = One
          /\ Add64(OAdd1, OAdd1Neg) = Zero
          /\ \A a \in DOMAIN otab : UnO(otab[a]) = a
          /\ \A v \in OValues : UnO(O(v[1])) = v[1]
          /\ \A a, b \in DOMAIN otab : a # b => otab[a] # otab[b]
    /\ Done => \A a, b \in CalledNodes(trace) : a # b => OAt(a) # OAt(b)

\* a file was rendered: sixteen nodes or more, each with a base of its own
C20_Witness ==
    /\ Done
    /\ Cardinality(CalledNodes(trace)) >= 16
    /\ Cardinality({OAt(a) : a \in CalledNodes(trace)}) = Cardinality(CalledNodes(trace))

----------------------------------------------------------------------------
(* C21 *)

\* the keys that the scan left in both sets
InBoth == EnderSepar[1] \cap EnderSepar[2]

\* C21: after LookupComments has scanned any input starting from two empty
\* sets, no key belongs to both the end-of-line set EnderSepar[0] and the
\* separate set EnderSepar[1].
C21_Disjoint == Scanned => InBoth = {}

\* what does hold: a key is in both sets only when markers start at both
\* positions 2k-1 and 2k that share the key k, the first one opening a line
\* after a blank line (separate) and the second one preceded by the first
\* (end-of-line)
C21_SharedOnlyByNeighbours ==
    Scanned => \A k \in InBoth :
                   /\ Marker(file, 2 * k - 1)
                   /\ Marker(file, 2 * k)
                   /\ ~Preceded(file, 2 * k - 1)
                   /\ BlankBefore(file, 2 * k - 1)

\* no single position is entered into both sets: the step that scans a
\* position adds its key to at most one of them
C21_OnePositionOneSet ==
    [][pc = "scan" =>
          ~(/\ KeyOf(pos) \in EnderSepar'[1] \ EnderSepar[1]
            /\ KeyOf(pos) \in EnderSepar'[2] \ EnderSepar[2])]_vars

====
